---- MODULE Spec2Model ----
(***************************************************************************)
(* State-machine model of the webshop backend (FastAPI + SQLAlchemy):      *)
(* the relational store (users, products, orders, order_items, reviews),   *)
(* the request handlers of app/routers/orders.py, products.py, reviews.py  *)
(* and the Kafka notification sink of app/kafka_config.py.                 *)
(*                                                                         *)
(* Every request owns a private SQLAlchemy session.  A handler's reads and *)
(* commits are the points where it touches the shared store, so a sync     *)
(* handler (run by the thread pool) is cut into one action per store       *)
(* access; what lies between two accesses works on the session's objects.  *)
(***************************************************************************)
EXTENDS Integers, Sequences, FiniteSets, TLC

(* ------------------------------ bounds --------------------------------- *)
NumUsers     == 3      \* users 1..NumUsers; user 1 is the seeded administrator
MaxProductId == 2      \* product ids 1..MaxProductId
MaxPrice     == 2      \* prices 1..MaxPrice
MaxStock     == 1      \* stock values an admin may set: 0..MaxStock
MaxQty       == 1      \* largest quantity of an order line
MaxItems     == 2      \* longest item list of one create_order request
MaxOrders    == 2      \* orders rows the model lets the table grow to
ShopOrders   == 1      \* orders rows in the runs that interleave catalog operations
MaxReviews   == 2      \* reviews rows the model lets the table grow to
EditReviews  == 1      \* reviews rows in the runs of update_review and delete_review
NumReqs      == 2      \* handlers of one endpoint that may be in flight together
NewNames     == 2      \* emails and usernames no seeded user holds

UserIds    == 1..NumUsers
ProductIds == 1..MaxProductId
Prices     == 1..MaxPrice
Stocks     == 0..MaxStock
Quantities == 0..MaxQty
Reqs       == 1..NumReqs

\* the schemas put no range on price, stock and quantity (schemas.py 48-65,
\* 106-108): the requests may carry negative numbers as well
MinInput      == -1
AnyPrices     == {MinInput, MaxPrice}
AnyStocks     == MinInput..MaxStock
AnyQuantities == MinInput..MaxQty

MinRating == 1         \* ReviewBase.rating: Field(ge=1, le=5)
MaxRating == 5
RatingInputs == {MinRating, MaxRating}   \* the ratings the modelled requests carry
Feedbacks    == {"null", "good"}         \* feedback left out, or a short text

\* Python's None, stored as SQL NULL: the value of an Optional field that is
\* null or left out.  It stands outside every set of integers the requests
\* of the model carry.
None == -99

ADMINISTRATOR == "ADMINISTRATOR"
CUSTOMER      == "CUSTOMER"

(* HTTP status codes *)
HTTP_200 == 200
HTTP_204 == 204
HTTP_400 == 400
HTTP_401 == 401
HTTP_403 == 403
HTTP_404 == 404
HTTP_500 == 500

VARIABLES
    users,        \* users table: id -> [role, email, username]
    products,     \* products table: id -> [price, stock], domain = existing rows
    orders,       \* orders table: set of [id, order_id, user_id, total_amount]
    order_items,  \* order_items table: set of [id, order_id, product_id, quantity, unit_price]
    req,          \* create_order requests in flight: slot -> handler frame
    reviews,      \* reviews table: set of [id, user_id, product_id, rating, feedback]
    rev,          \* create_review requests in flight: slot -> handler frame
    edit,         \* update_review / delete_review requests in flight: slot -> handler frame
    reg,          \* register requests in flight: slot -> handler frame
    resp,         \* the response of the latest read of the orders router
    kafka_connected, \* KafkaProducer.is_connected of the global producer
    sink          \* event types the handlers handed to the Kafka producer

vars == <<users, products, orders, order_items, req, reviews, rev, edit, reg,
          resp, kafka_connected, sink>>

(* ------------------------------ helpers -------------------------------- *)
Max(S) == CHOOSE x \in S : \A y \in S : y <= x

\* next primary key of a table: SQLite rowid = largest rowid in use + 1
NextId(ids) == IF ids = {} THEN 1 ELSE Max(ids) + 1

RECURSIVE SumSeq(_)
SumSeq(s) == IF s = <<>> THEN 0 ELSE Head(s) + SumSeq(Tail(s))

\* all sequences over S of length lo..hi
SeqsOf(S, lo, hi) == UNION {[1..n -> S] : n \in lo..hi}

OrderItemIn == [product_id : ProductIds, quantity : Quantities]

IdleFrame == [pc |-> "idle", user |-> 0, items |-> <<>>, idx |-> 0,
              sess |-> <<>>, order_items |-> <<>>, total_amount |-> 0,
              order |-> 0, status |-> 0]

ReviewIn == [product_id : ProductIds, rating : RatingInputs, feedback : Feedbacks]

IdleReview == [pc |-> "idle", user |-> 0,
               body |-> [product_id |-> 0, rating |-> 0, feedback |-> "null"],
               status |-> 0]

NoRow == [id |-> 0, user_id |-> 0, product_id |-> 0, rating |-> 0, feedback |-> "null"]

IdleEdit == [pc |-> "idle", op |-> "none", user |-> 0, review_id |-> 0,
             body |-> [fields |-> {}, rating |-> None, feedback |-> "null"],
             row |-> NoRow, status |-> 0]

\* the bodies of POST /auth/register (schemas.py 17-24): emails and usernames
\* are numbered, the seeded user u holding email u and username u; role may
\* be left out
Names      == NumUsers..(NumUsers + NewNames)
Omitted    == "omitted"
UserCreate == [email : Names, username : Names, role : {Omitted, CUSTOMER, ADMINISTRATOR}]

IdleRegister == [pc |-> "idle", body |-> [email |-> 0, username |-> 0, role |-> Omitted],
                 id |-> 0, status |-> 0]

NoResponse == [op |-> "none", user |-> 0, arg |-> 0, status |-> 0, orders |-> {},
               total_orders |-> 0, total_spent |-> 0,
               average_order_value |-> <<0, 1>>, last_order_date |-> None]

(* ------------------------------- Init ---------------------------------- *)
\* The store after start-up and seeding: the administrator (main.py lifespan),
\* the registered customers and one product (the fixtures of tests/conftest.py).
Init ==
    /\ users = [u \in UserIds |-> [role |-> IF u = 1 THEN ADMINISTRATOR ELSE CUSTOMER,
                                    email |-> u, username |-> u]]
    /\ products = (1 :> [price |-> MaxPrice, stock |-> MaxStock])
    /\ orders = {}
    /\ order_items = {}
    /\ req = [r \in Reqs |-> IdleFrame]
    /\ reviews = {}
    /\ rev = [r \in Reqs |-> IdleReview]
    /\ edit = [e \in Reqs |-> IdleEdit]
    /\ reg = [g \in Reqs |-> IdleRegister]
    /\ resp = NoResponse
    /\ kafka_connected = FALSE
    /\ sink = {}

(* --------------------------- Kafka producer ---------------------------- *)
\* get_kafka_producer: a producer that is not connected tries to connect; the
\* attempt may fail, which connect() swallows.
ConnectOutcomes == IF kafka_connected THEN {TRUE} ELSE BOOLEAN

\* one call of a handler that depends on the producer and hands it an event
\* of type event_type.  send_analytics_event skips the send when the producer
\* is not connected and catches every error of the send, so the handler goes
\* on whatever becomes of the event; sink records the events handed over.
Emit(event_type) ==
    \E conn \in ConnectOutcomes :
        /\ kafka_connected' = conn
        /\ sink' = sink \cup {event_type}

(* ----------------------------- create_order ---------------------------- *)
\* SessionProduct as it would be if every query built a new object from the
\* row of the table
SessionProductReloaded(f, p) ==
    [price |-> products[p].price, stock |-> products[p].stock,
     loaded |-> products[p].stock]

\* the product object the session hands to the handler for Product.id = p:
\* the object of the identity map when the session already loaded the row,
\* otherwise the row as it is in the table now
SessionProduct(f, p) ==
    IF p \in DOMAIN f.sess THEN f.sess[p]
    ELSE [price |-> products[p].price, stock |-> products[p].stock,
          loaded |-> products[p].stock]

\* raise HTTPException: get_db closes the session, pending changes are dropped
Abort(f, code) == [f EXCEPT !.pc = "done", !.status = code, !.sess = <<>>]

\* products whose stock attribute differs from the loaded value: the rows the
\* flush of the session UPDATEs
Dirty(f) == {p \in DOMAIN f.sess : f.sess[p].stock # f.sess[p].loaded}

\* orders.py 14-27: authenticate, read the body, reject an empty item list
CreateOrderStart(r, u, items) ==
    /\ req[r].pc = "idle"
    /\ \A q \in Reqs : q < r => req[q].pc # "idle"   \* slots are taken in order
    /\ req' = [req EXCEPT ![r] =
                 IF items = <<>>
                 THEN [IdleFrame EXCEPT !.pc = "done", !.user = u, !.status = HTTP_400]
                 ELSE [IdleFrame EXCEPT !.pc = "validate", !.user = u,
                                        !.items = items, !.idx = 1]]
    /\ UNCHANGED <<reviews, rev, resp, users, products, orders, order_items, kafka_connected, sink, edit, reg>>

\* ValidateItem as it would be if every stock decrement were committed at once
\* instead of staying in the session until the order is committed
ValidateItemAutocommit(r) ==
    LET f  == req[r]
        it == f.items[f.idx]
        p  == it.product_id
        ok == /\ p \in DOMAIN products
              /\ SessionProduct(f, p).stock # None
              /\ SessionProduct(f, p).stock >= it.quantity
              /\ SessionProduct(f, p).price # None
    IN
    /\ f.pc = "validate"
    /\ req' = [req EXCEPT ![r] =
         IF p \notin DOMAIN products THEN Abort(f, HTTP_404)
         ELSE LET product == SessionProduct(f, p) IN
              IF product.stock = None THEN Abort(f, HTTP_500)   \* TypeError: None < int
              ELSE IF product.stock < it.quantity THEN Abort(f, HTTP_400)
              ELSE IF product.price = None THEN Abort(f, HTTP_500)   \* TypeError: None * int
              ELSE [f EXCEPT
                      !.sess = (p :> [product EXCEPT !.stock = @ - it.quantity,
                                                     !.loaded = @ - it.quantity]) @@ f.sess,
                      !.total_amount = @ + product.price * it.quantity,
                      !.order_items = Append(@, [product_id |-> p,
                                                 quantity   |-> it.quantity,
                                                 unit_price |-> product.price]),
                      !.idx = @ + 1,
                      !.pc = IF f.idx = Len(f.items) THEN "create" ELSE "validate"]]
    /\ products' = IF ok THEN [products EXCEPT ![p].stock = SessionProduct(f, p).stock - it.quantity]
                   ELSE products
    /\ UNCHANGED <<reviews, rev, resp, users, orders, order_items, kafka_connected, sink, edit, reg>>

\* orders.py 29-56: one pass of the loop over the items
ValidateItem(r) ==
    LET f  == req[r]
        it == f.items[f.idx]
        p  == it.product_id
    IN
    /\ f.pc = "validate"
    /\ req' = [req EXCEPT ![r] =
         IF p \notin DOMAIN products THEN Abort(f, HTTP_404)
         ELSE LET product == SessionProduct(f, p) IN
              IF product.stock = None THEN Abort(f, HTTP_500)   \* TypeError: None < int
              ELSE IF product.stock < it.quantity THEN Abort(f, HTTP_400)
              ELSE IF product.price = None THEN Abort(f, HTTP_500)   \* TypeError: None * int
              ELSE [f EXCEPT
                      !.sess = (p :> [product EXCEPT !.stock = @ - it.quantity]) @@ f.sess,
                      !.total_amount = @ + product.price * it.quantity,
                      !.order_items = Append(@, [product_id |-> p,
                                                 quantity   |-> it.quantity,
                                                 unit_price |-> product.price]),
                      !.idx = @ + 1,
                      !.pc = IF f.idx = Len(f.items) THEN "create" ELSE "validate"]]
    /\ UNCHANGED <<reviews, rev, resp, users, products, orders, order_items, kafka_connected, sink, edit, reg>>

\* orders.py 58-65: db.add(order); db.commit().  The flush UPDATEs the stock
\* of every dirty product and INSERTs the order in one transaction; an UPDATE
\* that matches no row (the product was deleted meanwhile) raises
\* StaleDataError and the transaction is rolled back.
CommitOrder(r) ==
    LET f   == req[r]
        oid == NextId({o.id : o \in orders})
    IN
    /\ f.pc = "create"
    /\ IF Dirty(f) \subseteq DOMAIN products
       THEN /\ products' = [p \in DOMAIN products |->
                              IF p \in Dirty(f)
                              THEN [products[p] EXCEPT !.stock = f.sess[p].stock]
                              ELSE products[p]]
            /\ orders' = orders \cup {[id |-> oid, order_id |-> oid, user_id |-> f.user,
                                       total_amount |-> f.total_amount]}
            /\ req' = [req EXCEPT ![r] = [f EXCEPT !.pc = "items", !.order = oid,
                                                   !.sess = <<>>]]
       ELSE /\ req' = [req EXCEPT ![r] = Abort(f, HTTP_500)]
            /\ UNCHANGED <<products, orders>>
    /\ UNCHANGED <<reviews, rev, resp, users, order_items, kafka_connected, sink, edit, reg>>

\* NewItemRows as it would be if the unit price were read from the product again
\* when the items are stored
NewItemRowsLivePrice(f) ==
    LET base == NextId({i.id : i \in order_items}) IN
    {[id |-> base + k - 1, order_id |-> f.order,
      product_id |-> f.order_items[k].product_id,
      quantity   |-> f.order_items[k].quantity,
      unit_price |-> IF f.order_items[k].product_id \in DOMAIN products
                     THEN products[f.order_items[k].product_id].price
                     ELSE f.order_items[k].unit_price] : k \in 1..Len(f.order_items)}

\* the rows db.add(item) INSERTs for the handler's order_items list
NewItemRows(f) ==
    LET base == NextId({i.id : i \in order_items}) IN
    {[id |-> base + k - 1, order_id |-> f.order,
      product_id |-> f.order_items[k].product_id,
      quantity   |-> f.order_items[k].quantity,
      unit_price |-> f.order_items[k].unit_price] : k \in 1..Len(f.order_items)}

\* orders.py 67-75: attach the items to the order, second db.commit(), return
CommitItems(r) ==
    LET f == req[r] IN
    /\ f.pc = "items"
    /\ order_items' = order_items \cup NewItemRows(f)
    /\ req' = [req EXCEPT ![r] = [f EXCEPT !.pc = "done", !.status = HTTP_200]]
    /\ UNCHANGED <<reviews, rev, resp, users, products, orders, kafka_connected, sink, edit, reg>>

\* the response has been sent; the slot serves the next request
Return(r) ==
    /\ req[r].pc = "done"
    /\ req' = [req EXCEPT ![r] = IdleFrame]
    /\ UNCHANGED <<reviews, rev, resp, users, products, orders, order_items, kafka_connected, sink, edit, reg>>

(* ------------------------------ products ------------------------------- *)
\* get_current_admin_user: only an administrator passes (deps.py 36-43)
IsAdmin(u) == users[u].role = ADMINISTRATOR

\* products.py 62-90
create_product(u, price, stock) ==
    LET pid == NextId(DOMAIN products) IN
    /\ IsAdmin(u)
    /\ pid \in ProductIds
    /\ products' = (pid :> [price |-> price, stock |-> stock]) @@ products
    /\ Emit("product_created")
    /\ UNCHANGED <<reviews, rev, resp, users, orders, order_items, req, edit, reg>>

\* ApplyUpdate as it would be if the body replaced the row, a field left out
\* falling back to the default of its column
ApplyUpdateReplacing(row, body) ==
    [price |-> IF "price" \in DOMAIN body THEN body["price"] ELSE None,
     stock |-> IF "stock" \in DOMAIN body THEN body["stock"] ELSE 0]

\* setattr for every field present in the body (products.py 105-107);
\* body is update_data, the dict model_dump(exclude_unset=True) returns
ApplyUpdate(row, body) ==
    [price |-> IF "price" \in DOMAIN body THEN body["price"] ELSE row.price,
     stock |-> IF "stock" \in DOMAIN body THEN body["stock"] ELSE row.stock]

\* the PATCH bodies with prices of P and stocks of S: any subset of the
\* fields, each with a value of its type (schemas.py 60-65; an Optional field
\* may be spelled out as null)
ProductUpdateOf(P, S) ==
    UNION {{b \in [F -> P \cup S] :
              /\ "price" \in F => b["price"] \in P
              /\ "stock" \in F => b["stock"] \in S} : F \in SUBSET {"price", "stock"}}

ProductUpdate == ProductUpdateOf(Prices, Stocks)

\* update_product as it would be if a new price were carried into the order
\* items of the product
update_product_repricing(u, pid, body) ==
    /\ IsAdmin(u)
    /\ pid \in DOMAIN products
    /\ products' = [products EXCEPT ![pid] = ApplyUpdate(@, body)]
    /\ order_items' = {IF i.product_id = pid
                       THEN [i EXCEPT !.unit_price = ApplyUpdate(products[pid], body).price]
                       ELSE i : i \in order_items}
    /\ Emit("product_updated")
    /\ UNCHANGED <<users, orders, req, reviews, rev, resp, edit, reg>>

\* products.py 93-129
update_product(u, pid, body) ==
    /\ IsAdmin(u)
    /\ pid \in DOMAIN products
    /\ products' = [products EXCEPT ![pid] = ApplyUpdate(@, body)]
    /\ Emit("product_updated")
    /\ UNCHANGED <<reviews, rev, resp, users, orders, order_items, req, edit, reg>>

\* products.py 132-186: the order items of the product go first, then the
\* product; the flush of db.delete sets the product_id of its reviews to NULL
\* (models.py 46: the relationship has no delete cascade)
delete_product(u, pid) ==
    /\ IsAdmin(u)
    /\ pid \in DOMAIN products
    /\ order_items' = {i \in order_items : i.product_id # pid}
    /\ products' = [p \in DOMAIN products \ {pid} |-> products[p]]
    /\ reviews' = {IF x.product_id = pid THEN [x EXCEPT !.product_id = None] ELSE x :
                     x \in reviews}
    /\ Emit("product_deleted")
    /\ UNCHANGED <<rev, resp, users, orders, req, edit, reg>>

(* ----------------------- reads of the orders router -------------------- *)
\* customers.py 13-36: the ids of the users GET /customers/ lists, those of
\* role CUSTOMER (a page of up to 100 holds them all)
list_customers == {u \in DOMAIN users : users[u].role = CUSTOMER}

\* require_admin (deps.py 46-53)
require_admin(u) == users[u].role = ADMINISTRATOR

\* count, sum and average of a set of orders (orders.py 110-122); the average
\* is kept as the fraction <<sum, count>>, <<0, 1>> standing for 0
RECURSIVE SumRows(_, _)
\* sum of F(row) over the rows of S;  F is "quantity" or "subtotal"
SumRows(S, what) ==
    IF S = {} THEN 0
    ELSE LET i == CHOOSE x \in S : TRUE
         IN (IF what = "quantity" THEN i.quantity ELSE i.unit_price * i.quantity)
              + SumRows(S \ {i}, what)

RECURSIVE SumAmounts(_)
SumAmounts(S) ==
    IF S = {} THEN 0
    ELSE LET o == CHOOSE x \in S : TRUE IN o.total_amount + SumAmounts(S \ {o})

Respond(op, u, arg, status, found) ==
    [op |-> op, user |-> u, arg |-> arg, status |-> status, orders |-> found,
     total_orders |-> 0, total_spent |-> 0, average_order_value |-> <<0, 1>>,
     last_order_date |-> None]

ReadOnly == UNCHANGED <<users, products, orders, order_items, req, reviews, rev,
                        kafka_connected, sink, edit, reg>>

\* orders.py 78-84
list_my_orders(u) ==
    /\ resp' = Respond("list_my_orders", u, 0, HTTP_200,
                       {o \in orders : o.user_id = u})
    /\ ReadOnly

\* orders.py 87-100
list_my_orders_detailed(u) ==
    /\ resp' = Respond("list_my_orders_detailed", u, 0, HTTP_200,
                       {o \in orders : o.user_id = u})
    /\ ReadOnly

\* Order.created_at (models.py 83): the reading of the clock when the row is
\* stored.  The clock of the model ticks once per stored order, so the
\* reading is the row's id.
created_at(o) == o.id

\* func.max(Order.created_at) over the rows S, NULL when there is none
MaxCreatedAt(S) == IF S = {} THEN None ELSE Max({created_at(o) : o \in S})

\* get_my_order_summary as it would be without the filter on Order.user_id
get_my_order_summary_unfiltered(u) ==
    LET n == Cardinality(orders) IN
    /\ resp' = [Respond("get_my_order_summary", u, 0, HTTP_200, {}) EXCEPT
                  !.total_orders = n,
                  !.total_spent = SumAmounts(orders),
                  !.average_order_value =
                      IF n = 0 THEN <<0, 1>> ELSE <<SumAmounts(orders), n>>,
                  !.last_order_date = MaxCreatedAt(orders)]
    /\ ReadOnly

\* orders.py 103-122: count, coalesce(sum, 0), coalesce(avg, 0) and max of the
\* caller's orders in one query
get_my_order_summary(u) ==
    LET mine == {o \in orders : o.user_id = u}
        n    == Cardinality(mine)
    IN
    /\ resp' = [Respond("get_my_order_summary", u, 0, HTTP_200, {}) EXCEPT
                  !.total_orders = n,
                  !.total_spent = SumAmounts(mine),
                  !.average_order_value =
                      IF n = 0 THEN <<0, 1>> ELSE <<SumAmounts(mine), n>>,
                  !.last_order_date = MaxCreatedAt(mine)]
    /\ ReadOnly

\* get_order_details without the check of the owner
get_order_details_unchecked(u, order_id) ==
    LET found == {o \in orders : o.id = order_id} IN
    /\ resp' = IF found = {}
               THEN Respond("get_order_details", u, order_id, HTTP_404, {})
               ELSE Respond("get_order_details", u, order_id, HTTP_200, found)
    /\ ReadOnly

\* orders.py 125-151
get_order_details(u, order_id) ==
    LET found == {o \in orders : o.id = order_id} IN
    /\ resp' = IF found = {}
               THEN Respond("get_order_details", u, order_id, HTTP_404, {})
               ELSE IF \E o \in found : o.user_id # u /\ users[u].role # ADMINISTRATOR
               THEN Respond("get_order_details", u, order_id, HTTP_403, {})
               ELSE Respond("get_order_details", u, order_id, HTTP_200, found)
    /\ ReadOnly

\* the rows of S past the first skip and up to limit of them, newest first
\* (order_by created_at desc, offset, limit); orders are created in id order
Page(S, skip, limit) ==
    {o \in S : LET newer == Cardinality({x \in S : x.id > o.id})
               IN newer >= skip /\ newer < skip + limit}

\* orders.py 155-173; search 0 stands for no search parameter
list_all_orders(u, skip, limit, search) ==
    /\ resp' = IF ~require_admin(u)
               THEN Respond("list_all_orders", u, search, HTTP_403, {})
               ELSE Respond("list_all_orders", u, search, HTTP_200,
                            Page(IF search = 0 THEN orders
                                 ELSE {o \in orders : o.order_id = search},
                                 skip, limit))
    /\ ReadOnly

\* orders.py 176-196
search_order_by_id(u, order_id) ==
    LET found == {o \in orders : o.order_id = order_id} IN
    /\ resp' = IF ~require_admin(u)
               THEN Respond("search_order_by_id", u, order_id, HTTP_403, {})
               ELSE IF found = {}
               THEN Respond("search_order_by_id", u, order_id, HTTP_404, {})
               ELSE Respond("search_order_by_id", u, order_id, HTTP_200, found)
    /\ ReadOnly

\* orders.py 199-221
list_customer_orders(u, user_id) ==
    /\ resp' = IF ~require_admin(u)
               THEN Respond("list_customer_orders", u, user_id, HTTP_403, {})
               ELSE IF ~(user_id \in DOMAIN users /\ users[user_id].role = CUSTOMER)
               THEN Respond("list_customer_orders", u, user_id, HTTP_404, {})
               ELSE Respond("list_customer_orders", u, user_id, HTTP_200,
                            {o \in orders : o.user_id = user_id})
    /\ ReadOnly

(* ------------------------------- reviews ------------------------------- *)
\* reviews.py 35-45: authenticate, look the product up
CreateReviewStart(r, u, body) ==
    /\ rev[r].pc = "idle"
    /\ \A q \in Reqs : q < r => rev[q].pc # "idle"   \* slots are taken in order
    /\ Cardinality(reviews)
         + Cardinality({q \in Reqs : rev[q].pc \in {"check", "add"}}) < MaxReviews
    /\ rev' = [rev EXCEPT ![r] =
                 IF body.product_id \notin DOMAIN products
                 THEN [pc |-> "done", user |-> u, body |-> body, status |-> HTTP_404]
                 ELSE [pc |-> "check", user |-> u, body |-> body, status |-> 0]]
    /\ UNCHANGED <<users, products, orders, order_items, req, reviews, resp,
                   kafka_connected, sink, edit, reg>>

\* ExistingReview with the two columns of the filter mixed up
ExistingReviewSwapped(u, product_id) ==
    {x \in reviews : x.user_id = product_id /\ x.product_id = u}

\* reviews.py 47-57: the query for a review of this user for this product
ExistingReview(u, product_id) ==
    {x \in reviews : x.user_id = u /\ x.product_id = product_id}

CreateReviewCheck(r) ==
    LET f == rev[r] IN
    /\ f.pc = "check"
    /\ rev' = [rev EXCEPT ![r] =
                 IF ExistingReview(f.user, f.body.product_id) # {}
                 THEN [f EXCEPT !.pc = "done", !.status = HTTP_400]
                 ELSE [f EXCEPT !.pc = "add"]]
    /\ UNCHANGED <<users, products, orders, order_items, req, reviews, resp,
                   kafka_connected, sink, edit, reg>>

\* reviews.py 59-73: db.add(db_review); db.commit()
CreateReviewCommit(r) ==
    LET f == rev[r] IN
    /\ f.pc = "add"
    /\ reviews' = reviews \cup
         {[id |-> NextId({x.id : x \in reviews}), user_id |-> f.user,
           product_id |-> f.body.product_id, rating |-> f.body.rating,
           feedback |-> f.body.feedback]}
    /\ rev' = [rev EXCEPT ![r] = [f EXCEPT !.pc = "done", !.status = HTTP_200]]
    /\ UNCHANGED <<users, products, orders, order_items, req, resp,
                   kafka_connected, sink, edit, reg>>

\* the response has been sent; the slot serves the next request
ReviewReturn(r) ==
    /\ rev[r].pc = "done"
    /\ rev' = [rev EXCEPT ![r] = IdleReview]
    /\ UNCHANGED <<users, products, orders, order_items, req, reviews, resp,
                   kafka_connected, sink, edit, reg>>

(* ------------------- update_review and delete_review ------------------- *)
\* the bodies of PATCH /reviews/{id} (schemas.py 86-88).  Both fields are
\* Optional with default None: fields is model_fields_set, the fields the
\* request spelled out, and a field left out holds its default.  An explicit
\* null passes the validation of Optional[int] = Field(None, ge=1, le=5).
ReviewUpdate ==
    {b \in [fields : SUBSET {"rating", "feedback"},
            rating : RatingInputs \cup {None}, feedback : Feedbacks] :
        /\ "rating" \notin b.fields => b.rating = None
        /\ "feedback" \notin b.fields => b.feedback = "null"}

\* the handler answers with code; its session is closed and the body dropped
EditDone(f, code) ==
    [f EXCEPT !.pc = "done", !.status = code, !.row = NoRow, !.body = IdleEdit.body]

\* the rows db.query(Review).filter(Review.id == review_id) finds
ReviewById(review_id) == {x \in reviews : x.id = review_id}

\* reviews.py 90: only the owner passes
MayUpdate(u, db_review) == db_review.user_id = u

\* reviews.py 119: the owner or an administrator passes
MayDelete(u, db_review) ==
    db_review.user_id = u \/ users[u].role = ADMINISTRATOR

\* reviews.py 76-91: authenticate, load the review, 404, 403
UpdateReviewStart(e, u, review_id, body) ==
    LET f == [IdleEdit EXCEPT !.op = "update_review", !.user = u,
                              !.review_id = review_id, !.body = body]
    IN
    /\ edit[e].pc = "idle"
    /\ \A q \in Reqs : q < e => edit[q].pc # "idle"   \* slots are taken in order
    /\ edit' = [edit EXCEPT ![e] =
         IF ReviewById(review_id) = {} THEN EditDone(f, HTTP_404)
         ELSE LET db_review == CHOOSE x \in ReviewById(review_id) : TRUE IN
              IF ~MayUpdate(u, db_review) THEN EditDone(f, HTTP_403)
              ELSE [f EXCEPT !.pc = "commit", !.row = db_review]]
    /\ UNCHANGED <<users, products, orders, order_items, req, reviews, rev, resp,
                   kafka_connected, sink, reg>>

\* the object after the setattr loop of reviews.py 94-96
SetAttrs(db_review, body) ==
    [db_review EXCEPT
       !.rating   = IF "rating" \in body.fields THEN body.rating ELSE @,
       !.feedback = IF "feedback" \in body.fields THEN body.feedback ELSE @]

\* ReviewOut (schemas.py 91-98) takes an integer rating only: a review whose
\* rating is NULL fails the validation of the response
ResponseStatus(x) == IF x.rating = None THEN HTTP_500 ELSE HTTP_200

\* reviews.py 98-103: db.commit() flushes UPDATE reviews SET <the attributes
\* that changed> WHERE id = <the loaded id>; no row matched raises
\* StaleDataError.  With nothing changed no UPDATE is sent and db.refresh
\* fails when the row is gone.  The reads that follow the commit only build
\* the response and are taken together with it.
UpdateReviewCommit(e) ==
    LET f      == edit[e]
        obj    == SetAttrs(f.row, f.body)
        dirtyR == obj.rating # f.row.rating
        dirtyF == obj.feedback # f.row.feedback
        found  == ReviewById(f.review_id)
        stored == CHOOSE x \in found : TRUE
        after  == [stored EXCEPT
                     !.rating   = IF dirtyR THEN obj.rating ELSE @,
                     !.feedback = IF dirtyF THEN obj.feedback ELSE @]
    IN
    /\ f.pc = "commit" /\ f.op = "update_review"
    /\ IF found = {}
       THEN /\ edit' = [edit EXCEPT ![e] = EditDone(f, HTTP_500)]
            /\ UNCHANGED reviews
       ELSE /\ reviews' = (reviews \ found) \cup {after}
            /\ edit' = [edit EXCEPT ![e] = EditDone(f, ResponseStatus(after))]
    /\ UNCHANGED <<users, products, orders, order_items, req, rev, resp,
                   kafka_connected, sink, reg>>

\* reviews.py 106-120: authenticate, load the review, 404, 403
DeleteReviewStart(e, u, review_id) ==
    LET f == [IdleEdit EXCEPT !.op = "delete_review", !.user = u,
                              !.review_id = review_id]
    IN
    /\ edit[e].pc = "idle"
    /\ \A q \in Reqs : q < e => edit[q].pc # "idle"   \* slots are taken in order
    /\ edit' = [edit EXCEPT ![e] =
         IF ReviewById(review_id) = {} THEN EditDone(f, HTTP_404)
         ELSE LET db_review == CHOOSE x \in ReviewById(review_id) : TRUE IN
              IF ~MayDelete(u, db_review) THEN EditDone(f, HTTP_403)
              ELSE [f EXCEPT !.pc = "commit", !.row = db_review]]
    /\ UNCHANGED <<users, products, orders, order_items, req, reviews, rev, resp,
                   kafka_connected, sink, reg>>

\* reviews.py 122-124: db.delete(db_review); db.commit() sends DELETE FROM
\* reviews WHERE id = <the loaded id>; a DELETE that matches no row only warns
DeleteReviewCommit(e) ==
    LET f == edit[e] IN
    /\ f.pc = "commit" /\ f.op = "delete_review"
    /\ reviews' = reviews \ ReviewById(f.review_id)
    /\ edit' = [edit EXCEPT ![e] = EditDone(f, HTTP_204)]
    /\ UNCHANGED <<users, products, orders, order_items, req, rev, resp,
                   kafka_connected, sink, reg>>

\* the response has been sent; the slot serves the next request
EditReturn(e) ==
    /\ edit[e].pc = "done"
    /\ edit' = [edit EXCEPT ![e] = IdleEdit]
    /\ UNCHANGED <<users, products, orders, order_items, req, reviews, rev, resp,
                   kafka_connected, sink, reg>>

(* ------------------- the products router as it is served --------------- *)
\* A bearer token: sub is the id of the user it was issued to and role the
\* role claim it was issued with (auth.py 98-101).  sub = 0 stands for a
\* request without a token, or with one that verify_token rejects.
Anonymous == 0
Tokens    == [sub : {Anonymous} \cup UserIds, role : {ADMINISTRATOR, CUSTOMER}]

\* deps.py 11-33: the status get_current_user ends with; the user is looked
\* up by the sub of the token
get_current_user(token) ==
    IF token.sub \in DOMAIN users THEN HTTP_200 ELSE HTTP_401

\* get_current_admin_user as it would be if it went by the role claim of the token
get_current_admin_user_by_claim(token) ==
    IF get_current_user(token) # HTTP_200 THEN HTTP_401
    ELSE IF token.role # ADMINISTRATOR THEN HTTP_403
    ELSE HTTP_200

\* deps.py 36-43: the role is that of the users row
get_current_admin_user(token) ==
    IF get_current_user(token) # HTTP_200 THEN HTTP_401
    ELSE IF users[token.sub].role # ADMINISTRATOR THEN HTTP_403
    ELSE HTTP_200

\* how the broker behaves during a request: it takes connections and
\* messages, it refuses the connection, or the send raises
KafkaOutcomes == {"up", "connect_fails", "send_raises"}

\* get_kafka_producer as it would be if connect() let its error through
get_kafka_producer_unguarded(k) ==
    [raised    |-> ~kafka_connected /\ k = "connect_fails",
     connected |-> kafka_connected \/ k # "connect_fails"]

\* kafka_config.py 16-31, 113-117: a producer that is not connected tries to
\* connect, connect() catches the failure; raised: the dependency raises,
\* connected: is_connected afterwards
get_kafka_producer(k) ==
    [raised    |-> FALSE,
     connected |-> kafka_connected \/ k # "connect_fails"]

\* kafka_config.py 43-69: the send is skipped without a connection and its
\* errors are caught; raised: the call raises, delivered: the broker has the
\* event
send_analytics_event(producer, k) ==
    [raised    |-> FALSE,
     delivered |-> producer.connected /\ k # "send_raises"]

\* what a request leaves behind: the status and body of the response, the
\* three tables the products router touches, the producer, the events the
\* handler handed to it
Served(status, body, P, I, V, connected, events) ==
    [status |-> status, body |-> body, products |-> P, order_items |-> I,
     reviews |-> V, connected |-> connected, events |-> events]

\* the request ends with an HTTPException before anything was written, or
\* after a rollback
Refused(status, connected) ==
    Served(status, <<>>, products, order_items, reviews, connected, {})

\* the Product schema of the response (schemas.py 67-73) over the row T[pid]:
\* price and stock must be numbers, average_rating sums the ratings
ProductOut(T, V, pid) ==
    [id |-> pid, price |-> T[pid].price, stock |-> T[pid].stock,
     review_count |-> Cardinality({x \in V : x.product_id = pid})]

\* the status of a response that carries T[pid], sent after the event was
\* handed to the producer: an error the send lets through ends the request,
\* and so does a field the schema requires being None
ProductOutStatus(T, V, pid, sent) ==
    IF \/ sent.raised
       \/ T[pid].price = None
       \/ T[pid].stock = None
       \/ \E x \in V : x.product_id = pid /\ x.rating = None
    THEN HTTP_500 ELSE HTTP_200

\* a dependency that raises anything but an HTTPException ends the request
\* with 500 before the handler runs
DependencyFailed(producer) == producer.raised

\* the handler's own try/except around the send (products.py 22-29, 45-57,
\* 75-88, 113-127, 163-171)
SendGuarded(producer, k) == [raised |-> FALSE,
                             delivered |-> send_analytics_event(producer, k).delivered]

\* products.py 14-31
GET_products(k) ==
    LET producer == get_kafka_producer(k) IN
    IF DependencyFailed(producer) THEN Refused(HTTP_500, producer.connected)
    ELSE Served(IF \/ SendGuarded(producer, k).raised
                   \/ \E pid \in DOMAIN products :
                        ProductOutStatus(products, reviews, pid,
                                         SendGuarded(producer, k)) # HTTP_200
                THEN HTTP_500 ELSE HTTP_200,
                {ProductOut(products, reviews, pid) : pid \in DOMAIN products},
                products, order_items, reviews, producer.connected,
                {"product_list_viewed"})

\* products.py 34-59
GET_product(pid, k) ==
    LET producer == get_kafka_producer(k) IN
    IF DependencyFailed(producer) THEN Refused(HTTP_500, producer.connected)
    ELSE IF pid \notin DOMAIN products THEN Refused(HTTP_404, producer.connected)
    ELSE Served(ProductOutStatus(products, reviews, pid, SendGuarded(producer, k)),
                ProductOut(products, reviews, pid),
                products, order_items, reviews, producer.connected,
                {"product_viewed"})

\* products.py 62-90 with its dependencies, resolved in the order of the
\* parameters: current_admin, db, kafka
POST_product(token, price, stock, k) ==
    LET gate     == get_current_admin_user(token)
        producer == get_kafka_producer(k)
        pid      == NextId(DOMAIN products)
        T        == (pid :> [price |-> price, stock |-> stock]) @@ products
    IN
    IF gate # HTTP_200 THEN Refused(gate, kafka_connected)
    ELSE IF DependencyFailed(producer) THEN Refused(HTTP_500, producer.connected)
    ELSE Served(ProductOutStatus(T, reviews, pid, SendGuarded(producer, k)),
                ProductOut(T, reviews, pid),
                T, order_items, reviews, producer.connected, {"product_created"})

\* products.py 93-129 with its dependencies
PATCH_product(token, pid, body, k) ==
    LET gate     == get_current_admin_user(token)
        producer == get_kafka_producer(k)
        T        == [products EXCEPT ![pid] = ApplyUpdate(@, body)]
    IN
    IF gate # HTTP_200 THEN Refused(gate, kafka_connected)
    ELSE IF DependencyFailed(producer) THEN Refused(HTTP_500, producer.connected)
    ELSE IF pid \notin DOMAIN products THEN Refused(HTTP_404, producer.connected)
    ELSE Served(ProductOutStatus(T, reviews, pid, SendGuarded(producer, k)),
                ProductOut(T, reviews, pid),
                T, order_items, reviews, producer.connected, {"product_updated"})

\* db.delete(db_product) with the relationships of models.py 45-46, which
\* have no delete cascade: the flush sets the product_id of the rows still
\* related to the product to NULL
Orphaned(S, pid) ==
    {IF x.product_id = pid THEN [x EXCEPT !.product_id = None] ELSE x : x \in S}

\* DELETE_product without the cleanup of products.py 152-155
DELETE_product_keeping_items(token, pid, fault, k) ==
    LET gate     == get_current_admin_user(token)
        producer == get_kafka_producer(k)
    IN
    IF gate # HTTP_200 THEN Refused(gate, kafka_connected)
    ELSE IF DependencyFailed(producer) THEN Refused(HTTP_500, producer.connected)
    ELSE IF pid \notin DOMAIN products THEN Refused(HTTP_404, producer.connected)
    ELSE IF fault THEN Refused(HTTP_500, producer.connected)
    ELSE Served(IF SendGuarded(producer, k).raised THEN HTTP_500 ELSE HTTP_204, <<>>,
                [p \in DOMAIN products \ {pid} |-> products[p]],
                order_items,
                Orphaned(reviews, pid), producer.connected, {"product_deleted"})

\* products.py 132-186 with its dependencies; fault: a statement of the try
\* block raises, the except branch rolls back
DELETE_product(token, pid, fault, k) ==
    LET gate     == get_current_admin_user(token)
        producer == get_kafka_producer(k)
    IN
    IF gate # HTTP_200 THEN Refused(gate, kafka_connected)
    ELSE IF DependencyFailed(producer) THEN Refused(HTTP_500, producer.connected)
    ELSE IF pid \notin DOMAIN products THEN Refused(HTTP_404, producer.connected)
    ELSE IF fault THEN Refused(HTTP_500, producer.connected)
    ELSE Served(IF SendGuarded(producer, k).raised THEN HTTP_500 ELSE HTTP_204, <<>>,
                [p \in DOMAIN products \ {pid} |-> products[p]],
                {i \in order_items : i.product_id # pid},
                Orphaned(reviews, pid), producer.connected, {"product_deleted"})

\* the response of a request to the products router; kafka is the behaviour
\* of the broker during the request
CatalogResponse(op, token, arg, k, out) ==
    [kafka |-> k, body |-> out.body] @@ Respond(op, token.sub, arg, out.status, {})

\* the request op is served with the outcome out
Serve(op, token, arg, k, out) ==
    /\ resp' = CatalogResponse(op, token, arg, k, out)
    /\ products' = out.products
    /\ order_items' = out.order_items
    /\ reviews' = out.reviews
    /\ kafka_connected' = out.connected
    /\ sink' = sink \cup out.events
    /\ UNCHANGED <<users, orders, req, rev, edit, reg>>

(* ------------------------------ analytics ------------------------------ *)
\* Floats are kept as fractions <<numerator, denominator>>; Zero is 0.0.
Zero == <<0, 1>>

\* Ratio without the guard on the denominator
RatioUnguarded(n, d) == <<n, d>>

\* the guarded divisions of analytics.py 137, 146, 180, 249, 418, 575, 603:
\* n / d if d > 0 else 0.0
Ratio(n, d) == IF d > 0 THEN <<n, d>> ELSE Zero

\* a division by zero raises ZeroDivisionError
DivByZero(q) == q[2] = 0

\* what a helper hands to its caller: a value, or an exception
Returned(v) == [raised |-> FALSE, value |-> v]
Raised      == [raised |-> TRUE, value |-> <<>>]

RECURSIVE SumRatings(_)
SumRatings(S) ==
    IF S = {} THEN 0
    ELSE LET x == CHOOSE y \in S : TRUE IN x.rating + SumRatings(S \ {x})

\* func.avg(Review.rating) over the rows S, NULL ratings left out, "or 0.0"
AvgRating(S) ==
    LET rated == {x \in S : x.rating # None} IN
    IF rated = {} THEN Zero ELSE <<SumRatings(rated), Cardinality(rated)>>

\* the keys the queries group by are strftime texts; the loops over range(7)
\* and range(24) probe with integers, and a text never equals an integer
StrKey(n) == <<"str", n>>
IntKey(n) == <<"int", n>>

\* the clock readings of the rows: a run of the model is shorter than an hour,
\* so every stored order falls into the current month (0 months ago) and into
\* the weekday and hour at which the analytics are asked for
Clock == {[dow |-> 0, hour |-> 0], [dow |-> 6, hour |-> 23]}

\* one row of a GROUP BY over the orders: the key, count(id), sum(total_amount)
GroupRow(key) ==
    IF orders = {} THEN {}
    ELSE {[key |-> key, order_count |-> Cardinality(orders),
           total_revenue |-> SumAmounts(orders)]}

\* analytics.py 292-316: order lines and revenue per product (outer join);
\* limit 5 keeps them all, the catalog being smaller
get_top_selling_products ==
    {[product_id |-> p,
      orders  |-> Cardinality({i \in order_items : i.product_id = p}),
      revenue |-> SumRows({i \in order_items : i.product_id = p}, "subtotal")] :
        p \in DOMAIN products}

\* analytics.py 318-352: the chart helpers, one row per day with orders
get_chart_data(fault) == IF fault THEN Raised ELSE Returned(GroupRow(StrKey(0)))

\* analytics.py 354-370: the new users per day, one row per day with new users
get_user_growth_data ==
    IF DOMAIN users = {} THEN {} ELSE {Cardinality(DOMAIN users)}

UsersWithOrders == {u \in DOMAIN users : \E o \in orders : o.user_id = u}

\* analytics.py 101-160; fault: a query of the call raises
get_system_statistics(fault) ==
    LET total_orders  == Cardinality(orders)
        total_revenue == SumAmounts(orders)
        total_reviews == Cardinality(reviews)
        positive      == Cardinality({x \in reviews : x.rating # None /\ x.rating >= 4})
        aov           == Ratio(total_revenue, total_orders)
        pct           == Ratio(positive * 100, total_reviews)
    IN
    IF fault \/ DivByZero(aov) \/ DivByZero(pct) THEN Raised
    ELSE Returned(
      [total_products |-> Cardinality(DOMAIN products),
       total_orders   |-> total_orders,
       total_users    |-> Cardinality(DOMAIN users),
       total_revenue  |-> total_revenue,
       average_product_rating |-> AvgRating(reviews),
       top_selling_products   |-> get_top_selling_products,
       recent_orders  |-> {o.id : o \in orders},
       user_growth    |-> get_user_growth_data,
       sales_metrics  |-> [total_revenue |-> total_revenue, total_orders |-> total_orders,
                           average_order_value |-> aov],
       rating_metrics |-> [total_reviews |-> total_reviews,
                           average_rating |-> AvgRating(reviews),
                           positive_percentage |-> pct]])

\* analytics.py 162-223
get_order_analytics(fault) ==
    LET total_orders  == Cardinality(orders)
        total_revenue == SumAmounts(orders)
        aov           == Ratio(total_revenue, total_orders)
    IN
    IF fault \/ DivByZero(aov) THEN Raised
    ELSE Returned(
      [total_orders  |-> total_orders,
       total_revenue |-> total_revenue,
       average_order_value |-> aov,
       orders_today  |-> total_orders,
       revenue_today |-> total_revenue,
       top_products  |-> get_top_selling_products,
       sales_by_category |-> [orders |-> total_orders, revenue |-> total_revenue],
       monthly_sales |-> GroupRow(StrKey(0))])

\* analytics.py 225-258
get_user_analytics(fault) ==
    LET total_users == Cardinality(DOMAIN users)
        engagement  == Ratio(Cardinality(UsersWithOrders) * 100, total_users)
    IN
    IF fault \/ DivByZero(engagement) THEN Raised
    ELSE Returned(
      [total_users     |-> total_users,
       new_users_today |-> total_users,
       active_users    |-> Cardinality(UsersWithOrders),
       admin_users     |-> Cardinality({u \in DOMAIN users : users[u].role = ADMINISTRATOR}),
       customer_users  |-> Cardinality({u \in DOMAIN users : users[u].role = CUSTOMER}),
       user_engagement |-> engagement])

\* Product.average_rating (models.py 48-54): sum(review.rating) raises
\* TypeError when a review of the product has no rating
average_rating(p) ==
    LET mine == {x \in reviews : x.product_id = p} IN
    IF mine = {} THEN Zero ELSE <<SumRatings(mine), Cardinality(mine)>>

\* analytics.py 260-290; ProductAnalytics.stock_level is an int, a product
\* without stock fails the validation
get_product_analytics(fault) ==
    IF \/ fault
       \/ \E p \in DOMAIN products : products[p].stock = None
       \/ \E x \in reviews : x.product_id \in DOMAIN products /\ x.rating = None
    THEN Raised
    ELSE Returned(
      {[product_id |-> p,
        orders  |-> Cardinality({i \in order_items : i.product_id = p}),
        revenue |-> SumRows({i \in order_items : i.product_id = p}, "subtotal"),
        average_rating |-> average_rating(p),
        review_count   |-> Cardinality({x \in reviews : x.product_id = p}),
        stock_level    |-> products[p].stock] : p \in DOMAIN products})

\* the entry of a series for the bucket named label, probed with key in rows
SeriesEntry(label, key, rows) ==
    IF \E row \in rows : row.key = key
    THEN LET row == CHOOSE x \in rows : x.key = key IN
         [bucket |-> label, orders |-> row.order_count, revenue |-> <<row.total_revenue, 1>>]
    ELSE [bucket |-> label, orders |-> 0, revenue |-> Zero]

\* analytics.py 504-511: the result of the except branch
SalesFallback ==
    [monthly_sales |-> <<>>, day_of_week_sales |-> <<>>, hourly_sales |-> <<>>,
     conversion_rate |-> Zero, total_customers |-> 0, total_orders |-> 0]

\* analytics.py 372-511.  The months are matched text against text; the
\* month series is reversed, its entry k being the month of the day
\* 30 * (12 - k) days ago (two such days are taken to lie in different months).
\* The weekday and hour rows are keyed by text and probed with integers.
get_sales_analytics(fault, at) ==
    LET total_users  == Cardinality(DOMAIN users)
        total_orders == Cardinality(orders)
        conversion   == Ratio(total_orders * 100, total_users)
    IN
    IF fault \/ DivByZero(conversion) THEN Returned(SalesFallback)
    ELSE Returned(
      [monthly_sales     |-> [k \in 1..12 |->
                                SeriesEntry(12 - k, StrKey(12 - k), GroupRow(StrKey(0)))],
       day_of_week_sales |-> [k \in 1..7 |->
                                SeriesEntry(k - 1, IntKey(k - 1), GroupRow(StrKey(at.dow)))],
       hourly_sales      |-> [k \in 1..24 |->
                                SeriesEntry(k - 1, IntKey(k - 1), GroupRow(StrKey(at.hour)))],
       conversion_rate   |-> conversion,
       total_customers   |-> total_users,
       total_orders      |-> total_orders])

\* analytics.py 614-627: the result of the except branch
RatingFallback ==
    [rating_distribution |-> {}, top_rated_products |-> {}, rating_trends |-> {},
     overall_stats |-> [total_reviews |-> 0, average_rating |-> Zero,
                        products_with_reviews |-> 0, positive_reviews |-> 0,
                        neutral_reviews |-> 0, negative_reviews |-> 0,
                        positive_percentage |-> Zero]]

\* analytics.py 513-627; int(rating.rating) raises TypeError for the group of
\* the reviews without rating
get_rating_analytics(fault) ==
    LET total_reviews == Cardinality(reviews)
        count(v)      == Cardinality({x \in reviews : x.rating = v})
        positive      == Cardinality({x \in reviews : x.rating # None /\ x.rating >= 4})
        pct           == Ratio(positive * 100, total_reviews)
        reviewed      == {p \in DOMAIN products : \E x \in reviews : x.product_id = p}
    IN
    IF \/ fault
       \/ \E x \in reviews : x.rating = None
       \/ DivByZero(pct)
       \/ \E x \in reviews : DivByZero(Ratio(count(x.rating) * 100, total_reviews))
    THEN Returned(RatingFallback)
    ELSE Returned(
      [rating_distribution |->
           {[rating |-> v, count |-> count(v),
             percentage |-> Ratio(count(v) * 100, total_reviews)] :
               v \in {x.rating : x \in reviews}},
       top_rated_products |->
           {[product_id |-> p,
             average_rating |-> AvgRating({x \in reviews : x.product_id = p}),
             review_count |-> Cardinality({x \in reviews : x.product_id = p})] :
               p \in reviewed},
       rating_trends |-> IF reviews = {} THEN {}
                         ELSE {[average_rating |-> AvgRating(reviews),
                                review_count |-> total_reviews]},
       overall_stats |->
           [total_reviews |-> total_reviews,
            average_rating |-> AvgRating(reviews),
            products_with_reviews |-> Cardinality(reviewed),
            positive_reviews |-> positive,
            neutral_reviews  |-> Cardinality({x \in reviews : x.rating = 3}),
            negative_reviews |-> Cardinality({x \in reviews :
                                                x.rating # None /\ x.rating <= 2}),
            positive_percentage |-> pct]])


\* the helpers of the aggregator
Helpers == {"get_system_statistics", "get_order_analytics", "get_user_analytics",
            "get_product_analytics", "get_sales_analytics", "get_rating_analytics"}

\* the helper named op, applied to the store
Helper(op, fault, at) ==
    CASE op = "get_system_statistics" -> get_system_statistics(fault)
      [] op = "get_order_analytics"   -> get_order_analytics(fault)
      [] op = "get_user_analytics"    -> get_user_analytics(fault)
      [] op = "get_product_analytics" -> get_product_analytics(fault)
      [] op = "get_sales_analytics"   -> get_sales_analytics(fault, at)
      [] op = "get_rating_analytics"  -> get_rating_analytics(fault)

\* the response of an analytics call: fault names the helper in which a query
\* raised ("none": no query raised), at is the clock of the call
AnalyticsResponse(op, u, status, fault, at, result) ==
    [fault |-> fault, at |-> at, result |-> result] @@ Respond(op, u, 0, status, {})

\* the aggregator only queries: no db.add, no db.delete, no db.commit
AnalyticsReadOnly ==
    UNCHANGED <<users, products, orders, order_items, reviews, req, rev, edit, reg>>

\* a helper applied to the store; an exception it lets through reaches the caller
Aggregate(op, fault, at) ==
    LET out == Helper(op, fault, at) IN
    /\ resp' = IF out.raised
               THEN AnalyticsResponse(op, 0, HTTP_500, IF fault THEN op ELSE "none", at, <<>>)
               ELSE AnalyticsResponse(op, 0, HTTP_200, IF fault THEN op ELSE "none", at,
                                      out.value)
    /\ AnalyticsReadOnly
    /\ UNCHANGED <<kafka_connected, sink>>

\* the endpoint of the helper op as it would be if it dropped the order lines
\* of quantity zero before counting
AnalyticsEndpointPruning(u, op, fault, at) ==
    LET out == Helper(op, fault, at) IN
    /\ op \in {"get_system_statistics", "get_order_analytics",
               "get_user_analytics", "get_product_analytics"}
    /\ resp' = IF ~require_admin(u)
               THEN AnalyticsResponse(op, u, HTTP_403, "none", at, <<>>)
               ELSE IF out.raised
               THEN AnalyticsResponse(op, u, HTTP_500, IF fault THEN op ELSE "none", at, <<>>)
               ELSE AnalyticsResponse(op, u, HTTP_200, IF fault THEN op ELSE "none", at,
                                      out.value)
    /\ order_items' = IF require_admin(u) THEN {i \in order_items : i.quantity > 0}
                      ELSE order_items
    /\ UNCHANGED <<users, products, orders, reviews, req, rev, edit, reg>>
    /\ UNCHANGED <<kafka_connected, sink>>

\* analytics.py 68-98: /overview, /orders, /users and /products, each
\* require_admin and then the helper
AnalyticsEndpoint(u, op, fault, at) ==
    LET out == Helper(op, fault, at) IN
    /\ op \in {"get_system_statistics", "get_order_analytics",
               "get_user_analytics", "get_product_analytics"}
    /\ resp' = IF ~require_admin(u)
               THEN AnalyticsResponse(op, u, HTTP_403, "none", at, <<>>)
               ELSE IF out.raised
               THEN AnalyticsResponse(op, u, HTTP_500, IF fault THEN op ELSE "none", at, <<>>)
               ELSE AnalyticsResponse(op, u, HTTP_200, IF fault THEN op ELSE "none", at,
                                      out.value)
    /\ AnalyticsReadOnly
    /\ UNCHANGED <<kafka_connected, sink>>

\* analytics.py 17-66: require_admin, the admin_dashboard_access event, every
\* helper in turn; whatever one of them raises becomes HTTPException(500).
\* fault names the helper in which a query raises.
get_dashboard_metrics(u, fault, at) ==
    LET part(op) == Helper(op, fault = op, at)
        charts   == get_chart_data(fault = "get_chart_data")
    IN
    IF ~require_admin(u)
    THEN /\ resp' = AnalyticsResponse("get_dashboard_metrics", u, HTTP_403, "none", at, <<>>)
         /\ AnalyticsReadOnly
         /\ UNCHANGED <<kafka_connected, sink>>
    ELSE /\ resp' =
              IF charts.raised \/ \E op \in Helpers : part(op).raised
              THEN AnalyticsResponse("get_dashboard_metrics", u, HTTP_500, fault, at, <<>>)
              ELSE AnalyticsResponse("get_dashboard_metrics", u, HTTP_200, fault, at,
                     [overview |-> part("get_system_statistics").value,
                      orders   |-> part("get_order_analytics").value,
                      users    |-> part("get_user_analytics").value,
                      products |-> part("get_product_analytics").value,
                      revenue_chart |-> charts.value,
                      orders_chart  |-> charts.value,
                      sales_analytics  |-> part("get_sales_analytics").value,
                      rating_analytics |-> part("get_rating_analytics").value])
         /\ Emit("admin_dashboard_access")
         /\ AnalyticsReadOnly

(* ------------------- the analytics paths as they are served ------------- *)
\* main.py 77-82: the routers app.include_router mounts, by prefix
Mounted == {"auth", "products", "orders", "upload", "customers", "reviews"}

\* analytics.py 17, 68, 77, 86, 95: the GET routes of the analytics router
\* and the helper each one returns
AnalyticsPaths ==
    [dashboard |-> "get_dashboard_metrics", overview |-> "get_system_statistics",
     orders |-> "get_order_analytics", users |-> "get_user_analytics",
     products |-> "get_product_analytics"]

\* the name under which the response to GET /analytics/<path> is recorded
AnalyticsRoute(path) == "GET /analytics/" \o path

\* GET /analytics/<path> with the token of the caller: a path under a prefix
\* no router is mounted at matches no route, and the application answers 404
\* before any dependency runs; a mounted router runs get_current_user and
\* require_admin (deps.py 11-53) and then the helper of the route
GET_analytics(token, path, at) ==
    LET gate == get_current_admin_user(token)
        out  == IF path = "dashboard"
                THEN IF \E op \in Helpers : Helper(op, FALSE, at).raised
                     THEN Raised
                     ELSE Returned([op \in Helpers |-> Helper(op, FALSE, at).value])
                ELSE Helper(AnalyticsPaths[path], FALSE, at)
    IN
    /\ path \in DOMAIN AnalyticsPaths
    /\ resp' = IF "analytics" \notin Mounted
               THEN AnalyticsResponse(AnalyticsRoute(path), token.sub, HTTP_404,
                                      "none", at, <<>>)
               ELSE IF gate # HTTP_200
               THEN AnalyticsResponse(AnalyticsRoute(path), token.sub, gate,
                                      "none", at, <<>>)
               ELSE IF out.raised
               THEN AnalyticsResponse(AnalyticsRoute(path), token.sub, HTTP_500,
                                      "none", at, <<>>)
               ELSE AnalyticsResponse(AnalyticsRoute(path), token.sub, HTTP_200,
                                      "none", at, out.value)
    /\ AnalyticsReadOnly
    /\ IF "analytics" \in Mounted /\ gate = HTTP_200 /\ path = "dashboard"
       THEN Emit("admin_dashboard_access")
       ELSE UNCHANGED <<kafka_connected, sink>>

(* ------------------------------ register ------------------------------ *)
\* UserOut.is_admin (schemas.py 36-39), User.is_admin (models.py 28-31)
is_admin(user) == user.role = ADMINISTRATOR

\* UserCreate.role: Optional[UserRole] = UserRole.CUSTOMER (schemas.py 24)
RoleOf(body) == IF body.role = Omitted THEN CUSTOMER ELSE body.role

\* auth.py 52-60: the query for a user with the email of the body
RegisterStart(g, body) ==
    /\ reg[g].pc = "idle"
    /\ \A q \in Reqs : q < g => reg[q].pc # "idle"   \* slots are taken in order
    /\ reg' = [reg EXCEPT ![g] =
                 IF \E u \in DOMAIN users : users[u].email = body.email
                 THEN [IdleRegister EXCEPT !.pc = "done", !.body = body,
                                           !.status = HTTP_400]
                 ELSE [IdleRegister EXCEPT !.pc = "username", !.body = body]]
    /\ UNCHANGED <<users, products, orders, order_items, req, reviews, rev, edit,
                   resp, kafka_connected, sink>>

\* auth.py 62-68: the query for a user with the username of the body
RegisterCheckUsername(g) ==
    LET f == reg[g] IN
    /\ f.pc = "username"
    /\ reg' = [reg EXCEPT ![g] =
                 IF \E u \in DOMAIN users : users[u].username = f.body.username
                 THEN [f EXCEPT !.pc = "done", !.status = HTTP_400]
                 ELSE [f EXCEPT !.pc = "add"]]
    /\ UNCHANGED <<users, products, orders, order_items, req, reviews, rev, edit,
                   resp, kafka_connected, sink>>

\* the INSERT of the new user in the users table
InsertUser(f) ==
    LET id == NextId(DOMAIN users) IN
    (id :> [role |-> RoleOf(f.body), email |-> f.body.email,
            username |-> f.body.username]) @@ users

\* RegisterCommit as it would be without the unique indexes on users.email and
\* users.username
RegisterCommitUnconstrained(g) ==
    LET f == reg[g] IN
    /\ f.pc = "add"
    /\ users' = InsertUser(f)
    /\ reg' = [reg EXCEPT ![g] = [f EXCEPT !.pc = "done", !.status = HTTP_200,
                                           !.id = NextId(DOMAIN users)]]
    /\ UNCHANGED <<products, orders, order_items, req, reviews, rev, edit,
                   resp, kafka_connected, sink>>

\* auth.py 70-85: db.add(db_user); db.commit().  users.email and
\* users.username are unique (models.py 19-20): an INSERT that repeats one of
\* them raises IntegrityError and nothing is stored.
RegisterCommit(g) ==
    LET f == reg[g] IN
    /\ f.pc = "add"
    /\ IF \E u \in DOMAIN users : \/ users[u].email = f.body.email
                                   \/ users[u].username = f.body.username
       THEN /\ reg' = [reg EXCEPT ![g] = [f EXCEPT !.pc = "done", !.status = HTTP_500]]
            /\ UNCHANGED users
       ELSE /\ users' = InsertUser(f)
            /\ reg' = [reg EXCEPT ![g] = [f EXCEPT !.pc = "done", !.status = HTTP_200,
                                                   !.id = NextId(DOMAIN users)]]
    /\ UNCHANGED <<products, orders, order_items, req, reviews, rev, edit,
                   resp, kafka_connected, sink>>

\* the response has been sent; the slot serves the next request
RegisterReturn(g) ==
    /\ reg[g].pc = "done"
    /\ reg' = [reg EXCEPT ![g] = IdleRegister]
    /\ UNCHANGED <<users, products, orders, order_items, req, reviews, rev, edit,
                   resp, kafka_connected, sink>>

(* ---------------------------- specification ---------------------------- *)
\* the orders table, counting the orders of the handlers under way, has room
RoomFor(cap) ==
    Cardinality(orders)
      + Cardinality({q \in Reqs : req[q].pc \in {"validate", "create"}}) < cap

\* the steps of the create_order handlers running in the slots R for the
\* buyers U, with the item lists Lines, the orders table growing to cap rows
OrderStepOf(R, U, cap, Lines) ==
    \E r \in R :
        \/ \E u \in U : \E items \in Lines :
               RoomFor(cap) /\ CreateOrderStart(r, u, items)
        \/ ValidateItem(r)
        \/ CommitOrder(r)
        \/ CommitItems(r)
        \/ Return(r)

\* the same with item lists of up to len lines of quantities 0..MaxQty
OrderStep(R, U, cap, len) == OrderStepOf(R, U, cap, SeqsOf(OrderItemIn, 0, len))

\* the catalog operations of the users U with prices of P, stocks of S and
\* the PATCH bodies B
CatalogStepOf(U, P, S, B) ==
    \E u \in U :
        \/ \E price \in P : \E stock \in S : create_product(u, price, stock)
        \/ \E pid \in ProductIds : \E body \in B : update_product(u, pid, body)
        \/ \E pid \in ProductIds : delete_product(u, pid)

\* the reads of the products router, open to everyone, the broker behaving
\* as one of K
CatalogReadStep(K) ==
    \E k \in K :
        \/ Serve("list_products", [sub |-> Anonymous, role |-> CUSTOMER], 0, k,
                 GET_products(k))
        \/ \E pid \in ProductIds :
               Serve("get_product", [sub |-> Anonymous, role |-> CUSTOMER], pid, k,
                     GET_product(pid, k))

\* the writes of the products router that carry a token of T, prices of P,
\* stocks of S and PATCH bodies of B, the broker behaving as one of K
CatalogWriteStep(T, P, S, B, K) ==
    \E k \in K :
        \/ \E token \in T : \E price \in P : \E stock \in S :
               /\ NextId(DOMAIN products) \in ProductIds
               /\ Serve("create_product", token, NextId(DOMAIN products), k,
                        POST_product(token, price, stock, k))
        \/ \E token \in T : \E pid \in ProductIds : \E body \in B :
               Serve("update_product", token, pid, k, PATCH_product(token, pid, body, k))
        \/ \E token \in T : \E pid \in ProductIds : \E fault \in BOOLEAN :
               Serve("delete_product", token, pid, k,
                     DELETE_product(token, pid, fault, k))

\* the administrator's catalog operations
CatalogStep == CatalogStepOf(DOMAIN users, Prices, Stocks, ProductUpdate)

\* the reads of the orders router
ReadStep ==
    \E u \in UserIds :
        \/ list_my_orders(u)
        \/ list_my_orders_detailed(u)
        \/ get_my_order_summary(u)
        \/ \E order_id \in 1..MaxOrders : get_order_details(u, order_id)
        \/ \E skip \in {0, 1} : \E limit \in {1, 100} : \E search \in 0..MaxOrders :
               list_all_orders(u, skip, limit, search)
        \/ \E order_id \in 1..MaxOrders : search_order_by_id(u, order_id)
        \/ \E user_id \in UserIds : list_customer_orders(u, user_id)

\* the reviews table, counting the reviews of the handlers under way, has room
ReviewRoomFor(cap) ==
    Cardinality(reviews)
      + Cardinality({q \in Reqs : rev[q].pc \in {"check", "add"}}) < cap

\* the create_review handlers running in the slots R for the users U with
\* the bodies B, the reviews table growing to cap rows
CreateReviewStep(R, U, B, cap) ==
    \E r \in R :
        \/ \E u \in U : \E body \in B :
               ReviewRoomFor(cap) /\ CreateReviewStart(r, u, body)
        \/ CreateReviewCheck(r)
        \/ CreateReviewCommit(r)
        \/ ReviewReturn(r)

\* the update_review handlers running in the slots E for the users U with
\* the bodies B and the review ids 1..cap
UpdateReviewStep(E, U, B, cap) ==
    \E e \in E :
        \/ \E u \in U : \E review_id \in 1..cap : \E body \in B :
               UpdateReviewStart(e, u, review_id, body)
        \/ UpdateReviewCommit(e)
        \/ EditReturn(e)

\* the delete_review handlers running in the slots E for the users U with
\* the review ids 1..cap
DeleteReviewStep(E, U, cap) ==
    \E e \in E :
        \/ \E u \in U : \E review_id \in 1..cap :
               DeleteReviewStart(e, u, review_id)
        \/ DeleteReviewCommit(e)
        \/ EditReturn(e)

\* the register handlers running in the slots G with the bodies B
RegisterStep(G, B) ==
    \E g \in G :
        \/ \E body \in B : RegisterStart(g, body)
        \/ RegisterCheckUsername(g)
        \/ RegisterCommit(g)
        \/ RegisterReturn(g)

\* the analytics aggregator: its helpers applied to the store, its endpoints
\* called by the users U at a clock reading of C
AnalyticsStep(U, C) ==
    \E at \in C :
        \/ \E op \in Helpers : \E fault \in BOOLEAN : Aggregate(op, fault, at)
        \/ \E u \in U : \E op \in Helpers : \E fault \in BOOLEAN :
               AnalyticsEndpoint(u, op, fault, at)
        \/ \E u \in U : \E fault \in Helpers \cup {"get_chart_data", "none"} :
               get_dashboard_metrics(u, fault, at)

\* the requests to the analytics paths with a token of T at a clock reading of C
AnalyticsRequestStep(T, C) ==
    \E token \in T : \E path \in DOMAIN AnalyticsPaths : \E at \in C :
        GET_analytics(token, path, at)

\* the review handlers
ReviewStep == \/ CreateReviewStep(Reqs, DOMAIN users, ReviewIn, MaxReviews)
              \/ UpdateReviewStep(Reqs, DOMAIN users, ReviewUpdate, MaxReviews)
              \/ DeleteReviewStep(Reqs, DOMAIN users, MaxReviews)

Next == \/ OrderStep(Reqs, UserIds, MaxOrders, MaxItems)
        \/ CatalogStep
        \/ ReadStep
        \/ ReviewStep
        \/ RegisterStep(Reqs, UserCreate)
        \/ AnalyticsStep(DOMAIN users, Clock)
        \/ CatalogReadStep(KafkaOutcomes)
        \/ CatalogWriteStep(Tokens, Prices, Stocks, ProductUpdate, KafkaOutcomes)
        \/ AnalyticsRequestStep(Tokens, Clock)

Spec == Init /\ [][Next]_vars

\* concurrent order placement, the catalog left as seeded
NextOrders == OrderStep(Reqs, UserIds, MaxOrders, MaxItems)
SpecOrders == Init /\ [][NextOrders]_vars

\* one order handler, interleaved with the administrator's catalog operations
NextShop == OrderStep({1}, {NumUsers}, ShopOrders, MaxItems) \/ CatalogStep
SpecShop == Init /\ [][NextShop]_vars

\* single-line orders placed one after another, interleaved with the catalog
\* operations
NextHistory == OrderStep({1}, {NumUsers}, MaxOrders, 1) \/ CatalogStep
SpecHistory == Init /\ [][NextHistory]_vars

\* single-line orders placed one after another and the reads of the orders router
NextReads == OrderStep({1}, UserIds, MaxOrders, 1) \/ ReadStep
SpecReads == Init /\ [][NextReads]_vars

\* one order handler and the catalog operations, with whatever numbers the
\* schemas let through: negative prices, stocks and quantities, null fields
\* in a PATCH body
NextInputs ==
    \/ OrderStepOf({1}, {NumUsers}, ShopOrders,
                   SeqsOf([product_id : ProductIds, quantity : AnyQuantities], 0, 1))
    \/ CatalogStepOf({1}, AnyPrices, AnyStocks,
                     ProductUpdateOf(AnyPrices \cup {None}, AnyStocks \cup {None}))
SpecInputs == Init /\ [][NextInputs]_vars

\* the store before anyone registered (no ADMIN_EMAIL to seed, main.py 22-44)
InitFresh ==
    /\ users = <<>>
    /\ products = <<>>
    /\ orders = {}
    /\ order_items = {}
    /\ req = [r \in Reqs |-> IdleFrame]
    /\ reviews = {}
    /\ rev = [r \in Reqs |-> IdleReview]
    /\ edit = [e \in Reqs |-> IdleEdit]
    /\ reg = [g \in Reqs |-> IdleRegister]
    /\ resp = NoResponse
    /\ kafka_connected = FALSE
    /\ sink = {}

\* orders of up to MaxItems lines placed one after another, the catalog left
\* as seeded, with whatever quantities the handler lets through
NextLines ==
    OrderStepOf({1}, {NumUsers}, MaxOrders,
                SeqsOf([product_id : ProductIds, quantity : AnyQuantities], 0, MaxItems))
SpecLines == Init /\ [][NextLines]_vars

\* the same with the quantities 0..MaxQty
NextLinesCounted == OrderStep({1}, {NumUsers}, MaxOrders, MaxItems)
SpecLinesCounted == Init /\ [][NextLinesCounted]_vars

\* the seeded store after the administrator added a second product and the
\* customer NumUsers bought one unit of each product in one order
InitBought ==
    /\ users = [u \in UserIds |-> [role |-> IF u = 1 THEN ADMINISTRATOR ELSE CUSTOMER,
                                    email |-> u, username |-> u]]
    /\ products = [p \in 1..2 |-> [price |-> MaxPrice, stock |-> MaxStock - 1]]
    /\ orders = {[id |-> 1, order_id |-> 1, user_id |-> NumUsers,
                  total_amount |-> 2 * MaxPrice]}
    /\ order_items = {[id |-> p, order_id |-> 1, product_id |-> p, quantity |-> 1,
                       unit_price |-> MaxPrice] : p \in 1..2}
    /\ req = [r \in Reqs |-> IdleFrame]
    /\ reviews = {}
    /\ rev = [r \in Reqs |-> IdleReview]
    /\ edit = [e \in Reqs |-> IdleEdit]
    /\ reg = [g \in Reqs |-> IdleRegister]
    /\ resp = NoResponse
    /\ kafka_connected = FALSE
    /\ sink = {"product_created"}

\* the tokens of the requests to the products router: none, the
\* administrator's, a customer's, and a customer's with the role claim of an
\* administrator
CallerTokens ==
    {[sub |-> Anonymous, role |-> CUSTOMER], [sub |-> 1, role |-> ADMINISTRATOR],
     [sub |-> NumUsers, role |-> CUSTOMER], [sub |-> NumUsers, role |-> ADMINISTRATOR]}

\* the application as it is served: the products router and the analytics
\* paths, for callers with and without a token and whatever the broker does,
\* over a store that holds an order
NextCatalog ==
    \/ AnalyticsRequestStep(CallerTokens, {at \in Clock : at.dow = 0})
    \/ CatalogReadStep(KafkaOutcomes)
    \/ CatalogWriteStep(CallerTokens, {MaxPrice}, {MaxStock},
                        {b \in ProductUpdateOf({1}, {0}) : DOMAIN b # {"price", "stock"}},
                        KafkaOutcomes)
SpecCatalog == InitBought /\ [][NextCatalog]_vars

\* the analytics aggregator over a store that is fresh or seeded and then
\* takes an order and a review
NextAnalytics ==
    \/ OrderStep({1}, DOMAIN users \cap {NumUsers}, ShopOrders, 1)
    \/ CreateReviewStep({1}, DOMAIN users \cap {NumUsers},
                        {b \in ReviewIn : b.feedback = "null" /\ b.product_id = 1},
                        EditReviews)
    \/ AnalyticsStep(DOMAIN users \cap {1, NumUsers}, Clock)
SpecAnalytics == (Init \/ InitFresh) /\ [][NextAnalytics]_vars

\* concurrent register handlers
NextAuth == RegisterStep(Reqs, UserCreate)
SpecAuth == Init /\ [][NextAuth]_vars

\* concurrent create_review handlers and a delete_review handler, the catalog
\* left as seeded
NextReviews == \/ CreateReviewStep(Reqs, UserIds, ReviewIn, MaxReviews)
               \/ DeleteReviewStep({1}, {1}, MaxReviews)
SpecReviews == Init /\ [][NextReviews]_vars

\* a create_review handler and concurrent update_review and delete_review
\* handlers, the catalog left as seeded; the requests leave the feedback out
RatingOnly == {b \in ReviewUpdate : "feedback" \notin b.fields}
NextReviewEdits ==
    \/ CreateReviewStep({1}, UserIds,
                        {b \in ReviewIn : b.feedback = "null" /\ b.product_id = 1},
                        EditReviews)
    \/ UpdateReviewStep(Reqs, UserIds, RatingOnly, EditReviews)
    \/ DeleteReviewStep(Reqs, UserIds, EditReviews)
SpecReviewEdits == Init /\ [][NextReviewEdits]_vars

TypeOK ==
    /\ DOMAIN products \subseteq ProductIds
    /\ \A o \in orders : o.user_id \in UserIds
    /\ \A r \in Reqs : req[r].pc \in {"idle", "validate", "create", "items", "done"}
    /\ \A r \in Reqs : rev[r].pc \in {"idle", "check", "add", "done"}

(* ======================================================================= *)
(*                               Properties                                *)
(* ======================================================================= *)
\* the order_items rows of order oid in table T
ItemsOf(T, oid) == {i \in T : i.order_id = oid}

\* total quantity the lines of a request ask of product p
QtyOf(lines, p) ==
    SumSeq([k \in 1..Len(lines) |->
              IF lines[k].product_id = p THEN lines[k].quantity ELSE 0])

\* handler r took a step
Stepped(r) == req'[r] # req[r]

(* ---- C1 ---------------------------------------------------------------- *)
\* C1: create_order is atomic: whenever the Order row of a request is in the
\* orders table, all N of its OrderItems are in the order_items table too; no
\* observable state holds the Order with fewer than N items.
C1_OrderVisibleWithAllItems ==
    \A r \in Reqs :
        req[r].order # 0 =>
            Cardinality(ItemsOf(order_items, req[r].order)) = Len(req[r].items)

(* ---- C2 ---------------------------------------------------------------- *)
\* the stock the handler compares the quantity of its current item with: the
\* stock it loaded for the product less what the earlier items of the request
\* took of it
RunningStock(f, p) ==
    IF p \in DOMAIN f.sess
    THEN f.sess[p].loaded - QtyOf(SubSeq(f.items, 1, f.idx - 1), p)
    ELSE products[p].stock

\* the error the item in turn must produce, 0 when it passes
ItemError(f) ==
    LET it == f.items[f.idx] IN
    IF it.product_id \notin DOMAIN products THEN HTTP_404
    ELSE IF RunningStock(f, it.product_id) < it.quantity THEN HTTP_400
    ELSE 0

\* C2: a create_order call that fails leaves the store unchanged.  No step of
\* a handler that is still validating writes to the store (the stock
\* decrements of the items that passed stay in its session), the handler
\* stops at the first item in input order that fails, with 404 for an unknown
\* product and 400 for insufficient stock (400 too for an empty item list),
\* and the failing step changes no product, order or order item.
C2_FailedOrderLeavesStoreUnchanged ==
    [][\A r \in Reqs :
          /\ (Stepped(r) /\ req[r].pc \in {"idle", "validate"})
               => UNCHANGED <<products, orders, order_items>>
          /\ (Stepped(r) /\ req[r].pc = "idle")
               => (req'[r].status = HTTP_400) = (req'[r].items = <<>>)
          /\ (Stepped(r) /\ req[r].pc = "validate")
               => /\ req'[r].status = ItemError(req[r])
                  /\ (req'[r].pc = "done") = (ItemError(req[r]) # 0)
          /\ (Stepped(r) /\ req'[r].pc = "done" /\ req'[r].status # HTTP_200)
               => UNCHANGED <<products, orders, order_items>>
      ]_vars

\* a request failed on its second item for lack of stock after its first item
\* had passed and taken stock in the session; the store is as seeded
C2_Witness ==
    \E r \in Reqs :
        /\ req[r].pc = "done" /\ req[r].status = HTTP_400
        /\ req[r].idx = 2 /\ req[r].items[1].quantity > 0
        /\ products[1].stock = MaxStock /\ orders = {} /\ order_items = {}

(* ---- C3 ---------------------------------------------------------------- *)
\* C3: under any interleaving of concurrent create_order requests the total
\* quantity in committed OrderItems of a product never exceeds the stock that
\* was available (the seeded stock, the catalog being left alone).
C3_NoOversell ==
    \A p \in DOMAIN products :
        SumRows({i \in order_items : i.product_id = p}, "quantity") <= MaxStock

(* ---- C4 ---------------------------------------------------------------- *)
\* the first line of the request for product p among the lines read so far
FirstLineOf(f, p) ==
    CHOOSE j \in 1..Len(f.order_items) :
        /\ f.order_items[j].product_id = p
        /\ \A k \in 1..(j - 1) : f.order_items[k].product_id # p

\* C4: for every successful create_order the order's total_amount is the sum
\* of unit_price * quantity over its items, the order has exactly one
\* OrderItem per input item, in input order, with that item's product_id and
\* quantity, and each unit_price is the price the handler read when it
\* validated the item: the price in the table at that moment for a product the
\* request names for the first time, the price of its earlier line otherwise;
\* a later price does not enter.
C4_TotalAndUnitPrices ==
    [][\A r \in Reqs :
          /\ (Stepped(r) /\ req[r].pc = "validate" /\ req'[r].pc # "done")
               => LET f    == req[r]
                      p    == f.items[f.idx].product_id
                      line == req'[r].order_items[f.idx]
                  IN /\ Len(req'[r].order_items) = f.idx
                     /\ line.product_id = p
                     /\ line.quantity = f.items[f.idx].quantity
                     /\ line.unit_price =
                          IF \E j \in 1..Len(f.order_items) : f.order_items[j].product_id = p
                          THEN f.order_items[FirstLineOf(f, p)].unit_price
                          ELSE products[p].price
          /\ (Stepped(r) /\ req'[r].pc = "done" /\ req'[r].status = HTTP_200)
               => LET f    == req[r]
                      rows == ItemsOf(order_items', f.order)
                      base == NextId({i.id : i \in order_items})
                  IN /\ Cardinality(rows) = Len(f.items)
                     /\ \A k \in 1..Len(f.items) :
                          \E i \in rows :
                              /\ i.id = base + k - 1
                              /\ i.product_id = f.items[k].product_id
                              /\ i.quantity = f.items[k].quantity
                              /\ i.unit_price = f.order_items[k].unit_price
                     /\ \E o \in orders' :
                          /\ o.id = f.order
                          /\ o.user_id = f.user
                          /\ o.total_amount = SumRows(rows, "subtotal")
      ]_vars

\* an order of two lines succeeded and the price of one of its products has
\* been changed since the line was validated
C4_Witness ==
    \E r \in Reqs :
        /\ req[r].pc = "done" /\ req[r].status = HTTP_200
        /\ Len(req[r].items) = 2
        /\ req[r].items[1].product_id # req[r].items[2].product_id
        /\ \E i \in ItemsOf(order_items, req[r].order) :
              /\ i.quantity > 0
              /\ i.product_id \in DOMAIN products
              /\ products[i.product_id].price # i.unit_price

(* ---- C5 ---------------------------------------------------------------- *)
\* C5: the commit of a successful create_order leaves each product's stock at
\* its stock before minus the sum of the quantities of the order's items for
\* that product; the stock of a product the order does not name is unchanged.
C5_StockReducedByQuantities ==
    [][\A r \in Reqs :
          (req[r].pc = "create" /\ req'[r].pc = "items")
             => \A p \in DOMAIN products :
                    /\ p \in DOMAIN products'
                    /\ products'[p].stock
                         = products[p].stock - QtyOf(req[r].order_items, p)
      ]_vars

(* ---- C6 ---------------------------------------------------------------- *)
\* C6: every successful create_order emits an "order_created" notification
\* to the Notification Sink: once a create_order has returned its order, an
\* order_created event has been handed to the producer.
C6_OrderCreatedEmitted ==
    \A r \in Reqs :
        (req[r].pc = "done" /\ req[r].status = HTTP_200) => "order_created" \in sink

(* ---- C7 ---------------------------------------------------------------- *)
\* C7: once an order is created no later operation changes its user_id,
\* order_id or total_amount, nor the quantity or unit_price (or any other
\* column) of an OrderItem: every step leaves each Order row in the table as it
\* is and leaves each OrderItem row that stays in the table as it is; a price
\* change of a product is not reflected in existing OrderItems.
C7_OrdersImmutable ==
    [][/\ \A o \in orders : o \in orders'
       /\ \A i \in order_items : \A j \in order_items' : j.id = i.id => j = i
      ]_vars

\* two orders have been placed and the price of the product of an existing
\* order item has been changed since
C7_Witness ==
    /\ Cardinality(orders) = 2
    /\ \E i \in order_items :
          /\ i.order_id = 1
          /\ i.product_id \in DOMAIN products
          /\ products[i.product_id].price # i.unit_price

(* ---- C8 ---------------------------------------------------------------- *)
AdminReads == {"list_all_orders", "search_order_by_id", "list_customer_orders"}

\* C8: a user whose role is not ADMINISTRATOR never receives another user's
\* order: every order in a response to such a caller is the caller's own, the
\* summary counts and sums the caller's own orders only, get_order_details
\* answers 403 when the order exists and belongs to someone else, and the
\* /orders/admin/* endpoints answer 403.
C8_NoForeignOrders ==
    [][(resp' # resp /\ users[resp'.user].role # ADMINISTRATOR) =>
          LET a    == resp'
              mine == {o \in orders : o.user_id = a.user}
          IN /\ \A o \in a.orders : o.user_id = a.user
             /\ a.op = "get_my_order_summary" =>
                   /\ a.total_orders = Cardinality(mine)
                   /\ a.total_spent = SumRows({[unit_price |-> o.total_amount,
                                                quantity |-> 1, id |-> o.id] : o \in mine},
                                              "subtotal")
             /\ (a.op = "get_order_details"
                   /\ \E o \in orders : o.id = a.arg /\ o.user_id # a.user)
                   => a.status = HTTP_403 /\ a.orders = {}
             /\ a.op \in AdminReads => a.status = HTTP_403 /\ a.orders = {}
      ]_vars

\* a customer asked for the order of another customer and got 403
C8_Witness ==
    /\ resp.op = "get_order_details" /\ resp.status = HTTP_403
    /\ users[resp.user].role = CUSTOMER
    /\ \E o \in orders : /\ o.id = resp.arg /\ o.user_id # resp.user
                         /\ users[o.user_id].role = CUSTOMER

(* ---- C9 ---------------------------------------------------------------- *)
\* C9: in every reachable state, also under interleaved create_review
\* requests of one user for one product, there is at most one Review per
\* (user_id, product_id) pair.
C9_OneReviewPerUserAndProduct ==
    \A x \in reviews : \A y \in reviews :
        (x.user_id = y.user_id /\ x.product_id = y.product_id) => x = y

(* ---- C10 --------------------------------------------------------------- *)
\* C10: when a user who already has a review for a product calls
\* create_review for that product again, the call fails with 400 ("already
\* reviewed") and the reviews table, the existing review's rating and feedback
\* included, is unchanged.
C10_SecondReviewRejected ==
    [][\A r \in Reqs :
          (/\ rev'[r] # rev[r]
           /\ rev[r].pc = "check"
           /\ \E x \in reviews : /\ x.user_id = rev[r].user
                                 /\ x.product_id = rev[r].body.product_id)
             => /\ rev'[r].pc = "done"
                /\ rev'[r].status = HTTP_400
                /\ reviews' = reviews
      ]_vars

\* a second create_review of a user for a product was answered 400 and the
\* user's first review is the only one
C10_Witness ==
    \E r \in Reqs :
        /\ rev[r].pc = "done" /\ rev[r].status = HTTP_400
        /\ \E x \in reviews :
              /\ x.user_id = rev[r].user
              /\ x.product_id = rev[r].body.product_id
              /\ x.rating # rev[r].body.rating
        /\ Cardinality(reviews) = 1

(* ---- C11 --------------------------------------------------------------- *)
\* handler e of update_review / delete_review took a step
EditStepped(e) == edit'[e] # edit[e]

\* C11: a review is modified only by its owner and removed only by its owner
\* or an administrator.  A step that changes the rating or feedback of a
\* stored review is the commit of an update_review request of the review's
\* owner, and a step that removes a review is the commit of a delete_review
\* request of its owner or of an administrator; an update_review request for
\* a review of another user is answered 403 and a delete_review request of a
\* user who is neither the owner nor an administrator is answered 403, the
\* reviews table staying as it is; the user_id of a review is the user of the
\* create_review request that stored it and never changes.
C11_ReviewOwnership ==
    [][/\ \A x \in reviews : \A y \in reviews' :
            (y.id = x.id /\ y # x) =>
                /\ y.user_id = x.user_id
                /\ \E e \in Reqs : /\ EditStepped(e)
                                   /\ edit[e].pc = "commit"
                                   /\ edit[e].op = "update_review"
                                   /\ edit[e].user = x.user_id
       /\ \A x \in reviews :
            (\A y \in reviews' : y.id # x.id) =>
                \E e \in Reqs : /\ EditStepped(e)
                                /\ edit[e].pc = "commit"
                                /\ edit[e].op = "delete_review"
                                /\ \/ edit[e].user = x.user_id
                                   \/ users[edit[e].user].role = ADMINISTRATOR
       /\ \A y \in reviews' :
            (\A x \in reviews : x.id # y.id) =>
                \E r \in Reqs : /\ rev[r].pc = "add" /\ rev'[r].pc = "done"
                                /\ y.user_id = rev[r].user
       /\ \A e \in Reqs :
            (EditStepped(e) /\ edit[e].pc = "idle") =>
                LET f == edit'[e] IN
                /\ (f.op = "update_review"
                      /\ \E x \in reviews : x.id = f.review_id /\ x.user_id # f.user)
                     => f.pc = "done" /\ f.status = HTTP_403 /\ reviews' = reviews
                /\ (f.op = "delete_review"
                      /\ \E x \in reviews : /\ x.id = f.review_id
                                            /\ x.user_id # f.user
                                            /\ users[f.user].role # ADMINISTRATOR)
                     => f.pc = "done" /\ f.status = HTTP_403 /\ reviews' = reviews
      ]_vars

(* ---- C12 --------------------------------------------------------------- *)
\* C12: after any sequence of create_review, update_review and delete_review
\* requests the API accepts, an update whose body sets rating to null
\* included, every stored review has an integer rating between 1 and 5.
C12_RatingInRange ==
    \A x \in reviews : x.rating \in MinRating..MaxRating

(* ---- C13 --------------------------------------------------------------- *)
\* C13: in every reachable state every product has stock >= 0 and
\* price >= 0, after any sequence of admin create_product / update_product
\* requests and create_order requests the API accepts, the quantities, prices
\* and stock values being arbitrary integers and the fields of an update
\* possibly null.
C13_StockAndPriceNonNegative ==
    \A p \in DOMAIN products :
        /\ products[p].stock # None /\ products[p].stock >= 0
        /\ products[p].price # None /\ products[p].price >= 0

(* ---- C14 --------------------------------------------------------------- *)
\* C14: every order item ever created has quantity >= 1: create_order never
\* creates an order with an item whose quantity is zero or negative, and no
\* step of a create_order handler increases the stock of a product.
C14_QuantityPositive ==
    [][/\ \A i \in order_items' : i.quantity >= 1
       /\ \A r \in Reqs :
            Stepped(r) => \A p \in DOMAIN products :
                             p \in DOMAIN products' =>
                                 products'[p].stock <= products[p].stock
      ]_vars

(* ---- C15 --------------------------------------------------------------- *)
\* the orders of user u in the table
OrdersOf(u) == {o \in orders : o.user_id = u}

\* C15: for every user and every reachable state get_my_order_summary returns
\* total_orders equal to the number of the user's orders, which is the number
\* of orders /orders/detailed lists for the user, total_spent equal to the sum
\* of their total_amount, average_order_value equal to total_spent /
\* total_orders and last_order_date equal to the latest created_at; for a user
\* without orders it returns 0, 0.0, 0.0 and null with status 200.
C15_OrderSummary ==
    [][resp' # resp =>
          LET a == resp' IN
          /\ a.op = "list_my_orders_detailed" =>
                a.status = HTTP_200 /\ Cardinality(a.orders) = Cardinality(OrdersOf(a.user))
          /\ a.op = "get_my_order_summary" =>
                /\ a.status = HTTP_200
                /\ a.total_orders = Cardinality(OrdersOf(a.user))
                /\ a.total_spent = SumRows({[unit_price |-> o.total_amount,
                                             quantity |-> 1, id |-> o.id] :
                                               o \in OrdersOf(a.user)}, "subtotal")
                /\ IF OrdersOf(a.user) = {}
                   THEN /\ a.total_orders = 0 /\ a.total_spent = 0
                        /\ a.average_order_value = <<0, 1>>
                        /\ a.last_order_date = None
                   ELSE /\ a.average_order_value = <<a.total_spent, a.total_orders>>
                        /\ \E o \in OrdersOf(a.user) :
                              /\ a.last_order_date = created_at(o)
                              /\ \A x \in OrdersOf(a.user) : created_at(x) <= created_at(o)
      ]_vars

\* a customer with two orders got a summary while another user has none
C15_Witness ==
    /\ resp.op = "get_my_order_summary"
    /\ resp.total_orders = 2 /\ resp.total_spent > 0 /\ resp.last_order_date = 2
    /\ Cardinality(OrdersOf(resp.user)) = 2

\* a customer without orders got the all-zero summary while another has orders
C15_WitnessEmpty ==
    /\ resp.op = "get_my_order_summary"
    /\ resp.total_orders = 0 /\ resp.last_order_date = None
    /\ orders # {}

(* ---- C16 --------------------------------------------------------------- *)
\* the entry points of the analytics aggregator
AnalyticsOps == Helpers \cup {"get_dashboard_metrics"}

\* the last response is that of an analytics call the caller was allowed to make
AnalyticsAnswered == resp.op \in AnalyticsOps /\ resp.status # HTTP_403

\* C16: every analytics entry point (system statistics, order analytics, user
\* analytics, product analytics, sales analytics, rating analytics, the
\* dashboard) catches an internal error and returns normally; none answers an
\* error raised inside it with a failure.
C16_AnalyticsCatchErrors ==
    (AnalyticsAnswered /\ resp.fault # "none") => resp.status = HTTP_200

(* ---- C17 --------------------------------------------------------------- *)
\* the series of a sales analytics result are complete: 12 months, the days
\* 0..6, the hours 0..23, and without orders every entry is zero
SeriesComplete(sales) ==
    /\ Len(sales.monthly_sales) = 12
    /\ Len(sales.day_of_week_sales) = 7
    /\ \A k \in 1..7 : sales.day_of_week_sales[k].bucket = k - 1
    /\ Len(sales.hourly_sales) = 24
    /\ \A k \in 1..24 : sales.hourly_sales[k].bucket = k - 1
    /\ sales.total_orders = 0 =>
         \A series \in {sales.monthly_sales, sales.day_of_week_sales, sales.hourly_sales} :
             \A k \in DOMAIN series : series[k].orders = 0 /\ series[k].revenue = Zero

\* C17: on every return path of get_sales_analytics, whatever the orders
\* table holds, monthly_sales has exactly 12 entries, day_of_week_sales the 7
\* entries of the days 0..6 and hourly_sales the 24 entries of the hours
\* 0..23, an entry without orders being orders = 0, revenue = 0.0.
C17_SalesSeriesComplete ==
    /\ (resp.op = "get_sales_analytics" /\ resp.status = HTTP_200)
          => SeriesComplete(resp.result)
    /\ (resp.op = "get_dashboard_metrics" /\ resp.status = HTTP_200)
          => SeriesComplete(resp.result.sales_analytics)

(* ---- C18 --------------------------------------------------------------- *)
\* the step is one of an analytics call: it answers as one, and no handler
\* of the store moves
AnalyticsStepped == resp'.op \in AnalyticsOps /\ UNCHANGED <<req, rev, edit, reg>>

\* C18: no analytics operation writes to the store: across a call of one of
\* the six helpers or of the dashboard the users, products, orders,
\* order_items and reviews tables stay what they were.
C18_AnalyticsNeverWrites ==
    [][AnalyticsStepped => UNCHANGED <<users, products, orders, order_items, reviews>>]_vars

\* an analytics call was answered normally over a store holding an order, its
\* lines and a review
C18_Witness ==
    /\ resp.op \in AnalyticsOps /\ resp.status = HTTP_200
    /\ orders # {} /\ order_items # {} /\ reviews # {}

(* ---- C19 --------------------------------------------------------------- *)
\* the result of the helper op holds nothing but zeros and empty collections
ZeroValued(op, v) ==
    CASE op = "get_system_statistics" ->
            /\ v.total_orders = 0 /\ v.total_users = 0 /\ v.total_revenue = 0
            /\ v.average_product_rating = Zero /\ v.recent_orders = {}
            /\ v.user_growth = {}
            /\ \A t \in v.top_selling_products : t.orders = 0 /\ t.revenue = 0
            /\ v.sales_metrics = [total_revenue |-> 0, total_orders |-> 0,
                                  average_order_value |-> Zero]
            /\ v.rating_metrics = [total_reviews |-> 0, average_rating |-> Zero,
                                   positive_percentage |-> Zero]
      [] op = "get_order_analytics" ->
            /\ v.total_orders = 0 /\ v.total_revenue = 0 /\ v.average_order_value = Zero
            /\ v.orders_today = 0 /\ v.revenue_today = 0 /\ v.monthly_sales = {}
            /\ v.sales_by_category = [orders |-> 0, revenue |-> 0]
            /\ \A t \in v.top_products : t.orders = 0 /\ t.revenue = 0
      [] op = "get_user_analytics" ->
            v = [total_users |-> 0, new_users_today |-> 0, active_users |-> 0,
                 admin_users |-> 0, customer_users |-> 0, user_engagement |-> Zero]
      [] op = "get_product_analytics" ->
            \A t \in v : t.orders = 0 /\ t.revenue = 0 /\ t.review_count = 0
                         /\ t.average_rating = Zero
      [] op = "get_sales_analytics" ->
            /\ v.conversion_rate = Zero /\ v.total_customers = 0 /\ v.total_orders = 0
            /\ \A series \in {v.monthly_sales, v.day_of_week_sales, v.hourly_sales} :
                 \A k \in DOMAIN series : series[k].orders = 0 /\ series[k].revenue = Zero
      [] op = "get_rating_analytics" -> v = RatingFallback

\* every ratio of the result of the helper op is 0 where its denominator is 0
RatiosGuarded(op, v) ==
    CASE op = "get_system_statistics" ->
            /\ v.sales_metrics.total_orders = 0
                  => v.sales_metrics.average_order_value = Zero
            /\ v.rating_metrics.total_reviews = 0
                  => /\ v.rating_metrics.positive_percentage = Zero
                     /\ v.rating_metrics.average_rating = Zero
      [] op = "get_order_analytics" ->
            v.total_orders = 0 => v.average_order_value = Zero
      [] op = "get_user_analytics" ->
            v.total_users = 0 => v.user_engagement = Zero
      [] op = "get_product_analytics" ->
            \A t \in v : t.review_count = 0 => t.average_rating = Zero
      [] op = "get_sales_analytics" ->
            v.total_customers = 0 => v.conversion_rate = Zero
      [] op = "get_rating_analytics" ->
            v.overall_stats.total_reviews = 0
               => /\ v.overall_stats.positive_percentage = Zero
                  /\ v.overall_stats.average_rating = Zero
                  /\ v.rating_distribution = {}

\* the users, orders, order_items and reviews tables are empty
EmptyTables == users = <<>> /\ orders = {} /\ order_items = {} /\ reviews = {}

\* C19: with empty users, orders, order_items and reviews tables every
\* analytics operation returns normally with zero-valued results, and every
\* ratio it computes (average order value, user engagement, conversion rate,
\* rating and sentiment percentages) is 0 whenever its denominator is 0.
C19_EmptyTablesTolerated ==
    (resp.op \in Helpers /\ resp.fault = "none") =>
        /\ EmptyTables => resp.status = HTTP_200 /\ ZeroValued(resp.op, resp.result)
        /\ resp.status = HTTP_200 => RatiosGuarded(resp.op, resp.result)

\* the user analytics were computed over the empty tables
C19_Witness ==
    /\ EmptyTables
    /\ resp.op = "get_user_analytics" /\ resp.fault = "none" /\ resp.status = HTTP_200

(* ---- C20 --------------------------------------------------------------- *)
\* no two rows of table T share an email or a username
UniqueUsers(T) ==
    \A u \in DOMAIN T : \A v \in DOMAIN T :
        u # v => T[u].email # T[v].email /\ T[u].username # T[v].username

\* handler g of register took a step
RegStepped(g) == reg'[g] # reg[g]

CatalogWrites == {"create_product", "update_product", "delete_product"}

\* the step is a request to the products router being served
CatalogServed(ops) == resp'.op \in ops /\ UNCHANGED <<req, rev, edit, reg>>

\* C21: create_product, update_product and delete_product mutate the catalog
\* only for an authenticated caller whose stored role is ADMINISTRATOR: without
\* a valid token the answer is 401, for a CUSTOMER it is 403, and in both
\* cases the products table is unchanged; the role is the one of the users
\* row at request time, not the one of the token.
C21_CatalogWritesAdminOnly ==
    [][CatalogServed(CatalogWrites) =>
         /\ resp'.user \notin DOMAIN users
               => resp'.status = HTTP_401 /\ products' = products
         /\ (resp'.user \in DOMAIN users /\ users[resp'.user].role = CUSTOMER)
               => resp'.status = HTTP_403 /\ products' = products
         /\ products' # products
               => resp'.user \in DOMAIN users /\ users[resp'.user].role = ADMINISTRATOR
      ]_vars

\* a customer was refused the deletion of a product that exists
C21_Witness ==
    /\ resp.op = "delete_product" /\ resp.status = HTTP_403
    /\ resp.user = NumUsers /\ resp.arg \in DOMAIN products

(* ---- C22 --------------------------------------------------------------- *)
\* the last response answers GET /analytics/<path>
AnalyticsRequested ==
    \E path \in DOMAIN AnalyticsPaths : resp.op = AnalyticsRoute(path)

\* C22: each of GET /analytics/dashboard, /overview, /orders, /users and
\* /products is served and is admin only: an ADMINISTRATOR receives the
\* aggregation result, a CUSTOMER 403, a caller without a valid token 401.
C22_AnalyticsServedAdminOnly ==
    AnalyticsRequested =>
        IF resp.user \notin DOMAIN users THEN resp.status = HTTP_401
        ELSE IF users[resp.user].role = CUSTOMER THEN resp.status = HTTP_403
        ELSE resp.status = HTTP_200 /\ resp.result # <<>>

(* ---- C23 --------------------------------------------------------------- *)
\* what the caller and the store see of a request: the response and the tables
Visible(out) ==
    [status |-> out.status, body |-> out.body, products |-> out.products,
     order_items |-> out.order_items, reviews |-> out.reviews]

\* the requests to the products router
CatalogOps == CatalogWrites \cup {"list_products", "get_product"}

\* C23: the outcome of a catalog operation does not depend on the
\* notification sink: for list_products, get_product, create_product,
\* update_product and delete_product the response and the resulting store are
\* the same whether the producer is connected, fails to connect or raises
\* while sending.  Each behaviour of the broker is compared with the broker
\* that is up.
C23_CatalogIgnoresSink ==
    \A k1 \in {"up"} : \A k2 \in KafkaOutcomes \ {"up"} :
        /\ Visible(GET_products(k1)) = Visible(GET_products(k2))
        /\ \A pid \in ProductIds :
               Visible(GET_product(pid, k1)) = Visible(GET_product(pid, k2))
        /\ \A token \in CallerTokens :
               /\ \A price \in Prices : \A stock \in Stocks :
                      Visible(POST_product(token, price, stock, k1))
                        = Visible(POST_product(token, price, stock, k2))
               /\ \A pid \in ProductIds : \A body \in ProductUpdate :
                      Visible(PATCH_product(token, pid, body, k1))
                        = Visible(PATCH_product(token, pid, body, k2))
               /\ \A pid \in ProductIds : \A fault \in BOOLEAN :
                      Visible(DELETE_product(token, pid, fault, k1))
                        = Visible(DELETE_product(token, pid, fault, k2))

\* a product was deleted for the administrator during a request in which the
\* producer failed to connect
C23_Witness ==
    /\ resp.op = "delete_product" /\ resp.status = HTTP_204
    /\ resp.kafka = "connect_fails" /\ ~kafka_connected
    /\ resp.arg \notin DOMAIN products

(* ---- C24 --------------------------------------------------------------- *)
\* the tokens the administrator's requests carry
AdminTokens == {t \in Tokens : get_current_admin_user(t) = HTTP_200}

\* the outcome leaves the three tables as they are
NothingWritten(out) ==
    /\ out.products = products
    /\ out.order_items = order_items
    /\ out.reviews = reviews

\* C24: update_product changes exactly the fields present in the request body
\* and leaves every other field of that product and every other product
\* unchanged; update_product and delete_product on an unknown product id
\* return 404 and change nothing.
C24_UpdateTouchesOnlyGivenFields ==
    \A token \in AdminTokens : \A pid \in ProductIds : \A k \in KafkaOutcomes :
        /\ \A body \in ProductUpdate :
             LET out == PATCH_product(token, pid, body, k) IN
             IF pid \in DOMAIN products
             THEN /\ DOMAIN out.products = DOMAIN products
                  /\ \A q \in DOMAIN products \ {pid} : out.products[q] = products[q]
                  /\ \A field \in {"price", "stock"} :
                       out.products[pid][field] =
                           IF field \in DOMAIN body THEN body[field]
                           ELSE products[pid][field]
                  /\ out.order_items = order_items /\ out.reviews = reviews
             ELSE out.status = HTTP_404 /\ NothingWritten(out)
        /\ \A fault \in BOOLEAN :
             pid \notin DOMAIN products =>
                LET out == DELETE_product(token, pid, fault, k) IN
                out.status = HTTP_404 /\ NothingWritten(out)

\* the administrator changed the price of product 1 and nothing else
C24_Witness ==
    /\ resp.op = "update_product" /\ resp.status = HTTP_200 /\ resp.arg = 1
    /\ resp.body.price = 1 /\ MaxPrice # 1
    /\ products = [p \in 1..2 |-> [price |-> IF p = 1 THEN 1 ELSE MaxPrice,
                                    stock |-> MaxStock - 1]]

(* ---- C25 --------------------------------------------------------------- *)
\* C25: in every reachable state the owning user of every Order has the role
\* CUSTOMER: the user ids on the orders of /orders/admin/all are among the
\* user ids /customers/ returns.
C25_OrdersBelongToCustomers ==
    {o.user_id : o \in orders} \subseteq list_customers

(* ---- C26 --------------------------------------------------------------- *)
\* the entry of a series for the bucket b
EntryOf(series, b) == series[b + 1]

\* the orders counted by the entries of a series
OrdersCounted(series) == SumSeq([k \in DOMAIN series |-> series[k].orders])

\* C26: in the result of get_sales_analytics the day_of_week_sales entry of
\* every weekday d reports the number and the revenue of the orders created
\* on d, and the hourly_sales entry of every hour h those of the orders
\* created in h; the orders of the 7 day entries, and of the 24 hour entries,
\* sum to the number of orders.  (The orders of a run are created on the
\* weekday and in the hour of the call.)
C26_SalesByDayAndHour ==
    [][(/\ AnalyticsStepped
        /\ resp'.op = "get_sales_analytics"
        /\ resp'.fault = "none"
        /\ resp'.status = HTTP_200)
         => LET sales == resp'.result
                at    == resp'.at
                all   == [orders |-> Cardinality(orders),
                          revenue |-> <<SumAmounts(orders), 1>>]
                no    == [orders |-> 0, revenue |-> Zero]
                Counts(e) == [orders |-> e.orders, revenue |-> e.revenue]
            IN
            /\ \A d \in 0..6 :
                 Counts(EntryOf(sales.day_of_week_sales, d))
                   = IF d = at.dow /\ orders # {} THEN all ELSE no
            /\ \A h \in 0..23 :
                 Counts(EntryOf(sales.hourly_sales, h))
                   = IF h = at.hour /\ orders # {} THEN all ELSE no
            /\ OrdersCounted(sales.day_of_week_sales) = Cardinality(orders)
            /\ OrdersCounted(sales.hourly_sales) = Cardinality(orders)
      ]_vars

(* ---- C27 --------------------------------------------------------------- *)
\* the products the lines of a request name
ProductsOf(lines) == {lines[k].product_id : k \in DOMAIN lines}

\* C27: when a create_order request has several items of one product, each
\* is validated against the stock the earlier items of the request left: the
\* order succeeds exactly when the quantities of the product sum to at most
\* its stock at the start of the request, and then the stock goes down by
\* that sum.  (Requests handled one at a time: the stock at the start is the
\* stock of the table while the request is validated.)
C27_RepeatedProductRunningStock ==
    [][\A r \in Reqs :
         LET f == req[r] IN
         /\ (f.pc = "validate" /\ req'[r].pc = "done" /\ req'[r].status = HTTP_400)
               => \E p \in ProductsOf(f.items) \cap DOMAIN products :
                      QtyOf(f.items, p) > products[p].stock
         /\ (f.pc = "create" /\ req'[r].pc = "items")
               => \A p \in ProductsOf(f.items) :
                      /\ QtyOf(f.items, p) <= products[p].stock
                      /\ products'[p].stock = products[p].stock - QtyOf(f.items, p)
      ]_vars

\* an order with two lines of one product was stored
C27_Witness ==
    \E r \in Reqs :
        /\ req[r].pc = "items" /\ Len(req[r].items) = 2
        /\ req[r].items[1].product_id = req[r].items[2].product_id
        /\ req[r].items[1].quantity > 0

(* ---- C28 --------------------------------------------------------------- *)
\* C28: after a successful delete_product(p) the product p no longer exists,
\* no OrderItem references p, every Order still exists with its total_amount
\* unchanged and the OrderItems of other products are untouched; if the
\* deletion fails, neither the product nor any OrderItem is removed.
C28_DeleteProductRemovesItsItems ==
    [][CatalogServed({"delete_product"}) =>
         IF resp'.status = HTTP_204
         THEN /\ resp'.arg \notin DOMAIN products'
              /\ \A p \in DOMAIN products \ {resp'.arg} :
                     p \in DOMAIN products' /\ products'[p] = products[p]
              /\ \A i \in order_items' : i.product_id # resp'.arg
              /\ order_items' = {i \in order_items : i.product_id # resp'.arg}
              /\ orders' = orders
         ELSE products' = products /\ order_items' = order_items /\ orders' = orders
      ]_vars

\* product 1 was deleted together with its item of order 1; the order and its
\* item of product 2 are still there
C28_Witness ==
    /\ resp.op = "delete_product" /\ resp.status = HTTP_204 /\ resp.arg = 1
    /\ DOMAIN products = {2}
    /\ \E o \in orders : o.id = 1 /\ o.total_amount = 2 * MaxPrice
    /\ {i.product_id : i \in order_items} = {2}

\* the deletion of a product with an item failed and was rolled back
C28_WitnessRolledBack ==
    /\ resp.op = "delete_product" /\ resp.status = HTTP_500 /\ resp.arg = 1
    /\ 1 \in DOMAIN products
    /\ \E i \in order_items : i.product_id = 1

(* ---- C29 --------------------------------------------------------------- *)
\* C29: in every reachable state, after any sequence of create_order,
\* update_product and delete_product requests, the total_amount of every
\* stored Order is the sum of unit_price * quantity over the OrderItems
\* attached to it, and every stored Order has at least one OrderItem.
C29_OrderTotalMatchesItems ==
    \A o \in orders :
        /\ ItemsOf(order_items, o.id) # {}
        /\ o.total_amount = SumRows(ItemsOf(order_items, o.id), "subtotal")

(* ---- C30 --------------------------------------------------------------- *)
\* no create_order is between the commit of its order and the commit of its
\* items
NoOrderHalfStored == \A r \in Reqs : req[r].pc # "items"

====
